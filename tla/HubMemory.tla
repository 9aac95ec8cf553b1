----------------------------- MODULE HubMemory -----------------------------
(***************************************************************************)
(* What the hub keeps in memory without locks: the tags (app/tags.py), the *)
(* alert rules (app/alerts.py) and the audit log (app/audit.py), and the   *)
(* handlers of app/main.py that use them on several threads.               *)
(*                                                                         *)
(* A step is one access to a shared list or dictionary; the interpreter    *)
(* makes each of those atomic.  Iterating over a list is a step per item,  *)
(* because it follows the changes made to the list meanwhile; add_tag's    *)
(* comprehension is the step at which it reaches the end of its list.      *)
(***************************************************************************)
EXTENDS Naturals, FiniteSets, SequencesExt

CONSTANTS
    Threads,
    Sensors,      \* ids of existing sensors
    Keys,         \* keys of tags; their values make no difference here
    Rules,        \* AlertRule objects; the readings evaluated trigger them all
    MaxEntries,   \* max_entries of the audit log
    Assignments   \* which threads exercise which operations, one choice per behaviour

Operations == {"add_tag", "remove_tag", "find_by_tag", "evaluate", "add_rule",
               "delete_rule", "record"}

ASSUME ThreadsAssumption == IsFiniteSet(Threads)
ASSUME AssignmentsAssumption == Assignments \subseteq [Threads -> SUBSET Operations]
ASSUME SensorsAssumption == Sensors \cap Nat = {}
ASSUME EntriesAssumption == MaxEntries \in Nat \ {0}

VARIABLES
    tags,      \* _tags: the sensors that have a list
    lists,     \* lists[s]: the list of sensor s; lists[n], for a number n: a
               \* list that was replaced, while a thread still holds it
    rules,     \* engine.rules
    entries,   \* length of the audit log's list
    does,      \* does[t]: the operations thread t exercises
    th,        \* th[t]: the call thread t is in
    standing,  \* standing[t]: what t's search or evaluation should come
               \* across, because it was there from its beginning until now
    popped     \* popped[t]: rules removed since t's evaluation began

registry == <<tags, lists>>
history == <<standing, popped>>
vars == <<registry, rules, entries, does, th, history>>

Replaced == 1..Cardinality(Threads)

Idle == [pc |-> "idle", op |-> "none", sensor |-> 0, key |-> 0, list |-> 0,
         pos |-> 0, result |-> <<>>, visited |-> {}]

Init ==
    /\ tags = {}
    /\ lists = [l \in Sensors \cup Replaced |-> <<>>]
    /\ rules = <<>>
    /\ entries = 0
    /\ does \in Assignments
    /\ th = [t \in Threads |-> Idle]
    /\ standing = [t \in Threads |-> {}]
    /\ popped = [t \in Threads |-> {}]

Begin(t, op, pc) ==
    /\ th[t].pc = "idle"
    /\ op \in does[t]
    /\ th' = [th EXCEPT ![t] = [Idle EXCEPT !.op = op, !.pc = pc]]

At(t, pc) == th[t].pc = pc

GoTo(t, pc) == th' = [th EXCEPT ![t].pc = pc]

Finish(t) == th' = [th EXCEPT ![t] = Idle]

-----------------------------------------------------------------------------
(* Faulty variants of definitions below: bugs this code could well have.    *)

\* Faulty: the tag is removed from the list it is in.
ReplacingInPlace(t, s) == [lists EXCEPT ![s] = th[t].result]

\* Faulty: the newest rule comes first.
WithRuleFirst(r) == <<r>> \o rules

\* Faulty: the log is trimmed when it is one too long, however long it gets.
TooLongExactly(n) == n = MaxEntries + 1

-----------------------------------------------------------------------------
(* Tags.  A list that nobody holds any more is freed.                       *)
Free(contents) ==
    LET held == {th'[t].list : t \in Threads} IN
    lists' = [l \in Sensors \cup Replaced |->
                IF l \in Sensors \cup held THEN contents[l] ELSE <<>>]

(* Give sensor s another list.  Whoever holds the list it had keeps that.   *)
Unused == CHOOSE n \in Replaced : \A u \in Threads : th[u].list # n

OthersKeep(t, s, call) ==
    th' = [u \in Threads |-> CASE u = t -> call
                               [] u # t /\ th[u].list = s -> [th[u] EXCEPT !.list = Unused]
                               [] u # t /\ th[u].list # s -> th[u]]

(* add_tag: give the sensor a list if it has none, look for the key, and    *)
(* append a tag if it is not there.  The list is looked up each time.       *)
AddTag(t, s, k) ==
    /\ At(t, "idle") /\ "add_tag" \in does[t]
    /\ th' = [th EXCEPT ![t] = [Idle EXCEPT !.op = "add_tag", !.sensor = s, !.key = k,
                                  !.pc = IF s \notin tags THEN "create" ELSE "find"]]
    /\ UNCHANGED <<registry, rules, entries>>

Create(t) ==
    /\ At(t, "create")
    /\ tags' = tags \cup {th[t].sensor}
    /\ OthersKeep(t, th[t].sensor, [th[t] EXCEPT !.pc = "find"])
    /\ Free([lists EXCEPT ![Unused] = lists[th[t].sensor], ![th[t].sensor] = <<>>])
    /\ UNCHANGED <<rules, entries>>

LookUp(t, from, to) ==
    /\ At(t, from)
    /\ th' = [th EXCEPT ![t].pc = to, ![t].list = th[t].sensor]
    /\ UNCHANGED <<tags, rules, entries>>
    /\ Free(lists)

FindExisting(t) ==
    /\ At(t, "look")
    /\ IF th[t].key \in Range(lists[th[t].list])
         THEN Finish(t)
         ELSE th' = [th EXCEPT ![t].pc = "append", ![t].list = 0]
    /\ UNCHANGED <<tags, rules, entries>>
    /\ Free(lists)

AppendTag(t) ==
    /\ At(t, "append_to")
    /\ Finish(t)
    /\ UNCHANGED <<tags, rules, entries>>
    /\ Free([lists EXCEPT ![th[t].list] = Append(@, th[t].key)])

(* remove_tag: replace the list by one without the key.                     *)
RemoveTag(t, s, k) ==
    /\ At(t, "idle") /\ "remove_tag" \in does[t]
    /\ s \in tags
    /\ th' = [th EXCEPT ![t] = [Idle EXCEPT !.op = "remove_tag", !.sensor = s, !.key = k,
                                  !.pc = "filter", !.list = s, !.pos = 1]]
    /\ UNCHANGED <<registry, rules, entries>>

Filter(t) ==
    LET list == lists[th[t].list] IN
    /\ At(t, "filter")
    /\ \/ /\ th[t].pos > Len(list)
          /\ th' = [th EXCEPT ![t].pc = "replace", ![t].pos = 0, ![t].list = 0]
       \/ /\ th[t].pos <= Len(list) /\ list[th[t].pos] = th[t].key
          /\ th' = [th EXCEPT ![t].pos = @ + 1]
       \/ /\ th[t].pos <= Len(list) /\ list[th[t].pos] # th[t].key
          /\ th' = [th EXCEPT ![t].pos = @ + 1, ![t].result = Append(@, list[th[t].pos])]
    /\ UNCHANGED <<tags, rules, entries>>
    /\ Free(lists)

Replacing(t, s) == [lists EXCEPT ![Unused] = lists[s], ![s] = th[t].result]

Replace(t) ==
    /\ At(t, "replace")
    /\ OthersKeep(t, th[t].sensor, Idle)
    /\ UNCHANGED <<tags, rules, entries>>
    /\ Free(Replacing(t, th[t].sensor))

-----------------------------------------------------------------------------
(* find_by_tag and get_groups: go through the dictionary, and through each  *)
(* list.  If a sensor was added to the dictionary the iteration raises an   *)
(* error.  pos = 0: between two lists; result: the dictionary's size.       *)
Search(t, k) ==
    /\ At(t, "idle") /\ "find_by_tag" \in does[t]
    /\ th' = [th EXCEPT ![t] = [Idle EXCEPT !.op = "find_by_tag", !.key = k, !.pc = "search",
                                  !.result = <<Cardinality(tags)>>]]
    /\ UNCHANGED <<registry, rules, entries>>

NextSensor(t) ==
    LET left == tags \ th[t].visited IN
    /\ At(t, "search") /\ th[t].pos = 0
    /\ CASE Cardinality(tags) # th[t].result[1] -> Finish(t)
         [] Cardinality(tags) = th[t].result[1] /\ left = {} -> GoTo(t, "searched")
         [] Cardinality(tags) = th[t].result[1] /\ left # {} ->
              \E s \in left :
                th' = [th EXCEPT ![t].sensor = s, ![t].list = s, ![t].pos = 1,
                                 ![t].visited = @ \cup {s}]
    /\ UNCHANGED <<registry, rules, entries>>

\* A sensor whose list ends without the key is not found.
NextTag(t) ==
    LET list == lists[th[t].list] IN
    /\ At(t, "search") /\ th[t].pos > 0
    /\ \/ /\ th[t].pos > Len(list)
          /\ th' = [th EXCEPT ![t].pos = 0, ![t].list = 0]
       \/ /\ th[t].pos <= Len(list) /\ list[th[t].pos] = th[t].key
          /\ th' = [th EXCEPT ![t].pos = 0, ![t].list = 0, ![t].result = Append(@, th[t].sensor)]
       \/ /\ th[t].pos <= Len(list) /\ list[th[t].pos] # th[t].key
          /\ th' = [th EXCEPT ![t].pos = @ + 1]
    /\ UNCHANGED <<tags, rules, entries>>
    /\ Free(lists)

Found(t) == Range(Tail(th[t].result))

-----------------------------------------------------------------------------
(* Alert rules.  add_alert_rule records first and then appends;             *)
(* delete_alert_rule checks the position, removes and then records.         *)
AddRule(t) ==
    /\ Begin(t, "add_rule", "record")
    /\ UNCHANGED <<registry, rules, entries>>

WithRule(r) == Append(rules, r)

\* A rule object is new: no evaluation has come across it.
AppendRule(t) ==
    /\ At(t, "add_rule")
    /\ \E r \in Rules \ Range(rules) :
        /\ \A u \in Threads : r \notin Range(th[u].result) \cup popped[u]
        /\ rules' = WithRule(r)
    /\ Finish(t)
    /\ UNCHANGED <<registry, entries>>

DeleteRule(t, idx) ==
    /\ At(t, "idle") /\ "delete_rule" \in does[t]
    /\ idx <= Len(rules)
    /\ th' = [th EXCEPT ![t] = [Idle EXCEPT !.op = "delete_rule", !.pc = "pop", !.pos = idx]]
    /\ UNCHANGED <<registry, rules, entries>>

\* Another deletion may have made the list too short: IndexError.
Pop(t) ==
    /\ At(t, "pop")
    /\ IF th[t].pos <= Len(rules)
         THEN rules' = RemoveAt(rules, th[t].pos) /\ GoTo(t, "record")
         ELSE UNCHANGED rules /\ Finish(t)
    /\ UNCHANGED <<registry, entries>>

(* evaluate: go through the rules.  result: those that raised an alert.     *)
Evaluate(t) ==
    /\ At(t, "idle") /\ "evaluate" \in does[t]
    /\ th' = [th EXCEPT ![t] = [Idle EXCEPT !.op = "evaluate", !.pc = "evaluate", !.pos = 1]]
    /\ UNCHANGED <<registry, rules, entries>>

NextRule(t) ==
    /\ At(t, "evaluate")
    /\ IF th[t].pos <= Len(rules)
         THEN th' = [th EXCEPT ![t].pos = @ + 1, ![t].result = Append(@, rules[th[t].pos])]
         ELSE GoTo(t, "evaluated")
    /\ UNCHANGED <<registry, rules, entries>>

Return(t) ==
    /\ At(t, "searched") \/ At(t, "evaluated")
    /\ Finish(t)
    /\ UNCHANGED <<registry, rules, entries>>

-----------------------------------------------------------------------------
(* audit_log.record: append, and replace a list that is too long by its     *)
(* tail.  pos = 1 while the thread holds the list that is the log, 0 when   *)
(* that list has been replaced.                                             *)
Record(t) ==
    /\ Begin(t, "record", "record")
    /\ UNCHANGED <<registry, rules, entries>>

HoldLog(t) ==
    /\ At(t, "record")
    /\ th' = [th EXCEPT ![t].pc = "enter", ![t].pos = 1]
    /\ UNCHANGED <<registry, rules, entries>>

Enter(t) ==
    /\ At(t, "enter")
    /\ entries' = entries + th[t].pos
    /\ GoTo(t, "measure")
    /\ UNCHANGED <<registry, rules>>

TooLong(n) == n > MaxEntries

\* add_alert_rule goes on with its rule, the others are done.
AfterRecord(t) == IF th[t].op = "add_rule" THEN [th[t] EXCEPT !.pc = "add_rule"] ELSE Idle

Measure(t) ==
    /\ At(t, "measure")
    /\ th' = [th EXCEPT ![t] = IF TooLong(entries) THEN [@ EXCEPT !.pc = "slice"]
                                                   ELSE AfterRecord(t)]
    /\ UNCHANGED <<registry, rules, entries>>

Slice(t) ==
    /\ At(t, "slice")
    /\ th' = [th EXCEPT ![t].pc = "trim",
                        ![t].pos = IF entries > MaxEntries THEN MaxEntries ELSE entries]
    /\ UNCHANGED <<registry, rules, entries>>

\* Whoever holds the old list appends in vain.
Trim(t) ==
    /\ At(t, "trim")
    /\ entries' = th[t].pos
    /\ th' = [u \in Threads |->
                CASE u = t -> AfterRecord(t)
                  [] u # t /\ At(u, "enter") -> [th[u] EXCEPT !.pos = 0]
                  [] u # t /\ ~At(u, "enter") -> th[u]]
    /\ UNCHANGED <<registry, rules>>

-----------------------------------------------------------------------------
(* The server restarts with nothing in memory.                              *)
Restart ==
    /\ tags' = {}
    /\ lists' = [l \in Sensors \cup Replaced |-> <<>>]
    /\ rules' = <<>>
    /\ entries' = 0
    /\ th' = [t \in Threads |-> Idle]

Step(t) ==
    \/ \E s \in Sensors, k \in Keys : AddTag(t, s, k) \/ RemoveTag(t, s, k)
    \/ Create(t) \/ LookUp(t, "find", "look") \/ FindExisting(t)
    \/ LookUp(t, "append", "append_to") \/ AppendTag(t)
    \/ Filter(t) \/ Replace(t)
    \/ \E k \in Keys : Search(t, k)
    \/ NextSensor(t) \/ NextTag(t)
    \/ AddRule(t) \/ AppendRule(t)
    \/ \E idx \in 1..Len(rules) : DeleteRule(t, idx)
    \/ Pop(t)
    \/ Evaluate(t) \/ NextRule(t) \/ Return(t)
    \/ Record(t) \/ HoldLog(t) \/ Enter(t) \/ Measure(t) \/ Slice(t) \/ Trim(t)

-----------------------------------------------------------------------------
(* What happened, for the properties.                                       *)
Holding(in, k) == {s \in Sensors : k \in Range(in[s])}

ThereFor(t) ==
    CASE th'[t].op = "find_by_tag" -> Holding(lists', th'[t].key)
      [] th'[t].op = "evaluate" -> Range(rules')
      [] th'[t].op \notin {"find_by_tag", "evaluate"} -> {}

Observe ==
    /\ standing' = [t \in Threads |-> IF th[t].op = "none" THEN ThereFor(t)
                                      ELSE standing[t] \cap ThereFor(t)]
    /\ popped' = [t \in Threads |-> IF th'[t].op # "evaluate" THEN {}
                                    ELSE popped[t] \cup (Range(rules) \ Range(rules'))]

ForgetHistory ==
    /\ standing' = [t \in Threads |-> {}]
    /\ popped' = [t \in Threads |-> {}]

Next ==
    \/ (\E t \in Threads : Step(t)) /\ Observe /\ UNCHANGED does
    \/ Restart /\ ForgetHistory /\ UNCHANGED does

Spec == Init /\ [][Next]_vars

-----------------------------------------------------------------------------
Recording == {t \in Threads : th[t].pc \in {"measure", "slice", "trim"}}

(* Everything has its type; and the audit log never grows beyond its limit  *)
(* by more than the entries of those who have yet to look at its length,    *)
(* however many record at once and whichever list they replace.             *)
TypeOK ==
    /\ tags \subseteq Sensors
    /\ \A l \in Sensors \cup Replaced : Range(lists[l]) \subseteq Keys
    /\ \A s \in Sensors \ tags : lists[s] = <<>>
    /\ Range(rules) \subseteq Rules
    /\ entries \in 0..(MaxEntries + Cardinality(Recording))
    /\ \A t \in Threads : th[t].op \in does[t] \cup {"none"}

(* A search by tag, or of the groups for a rollout, that returns an answer  *)
(* has found every sensor that had the tag from its beginning to its end,   *)
(* whatever tags were added to and removed from the lists it went through.  *)
SearchesComplete ==
    \A t \in Threads : At(t, "searched") => standing[t] \subseteq Found(t)

(* An evaluation raises no alert twice for one rule, and of the rules that  *)
(* are there from its beginning to its end it misses at most as many as     *)
(* were deleted meanwhile: none if none was.                                *)
RulesAppliedOnce ==
    \A t \in Threads :
      th[t].op = "evaluate" =>
        /\ IsInjective(th[t].result)
        /\ At(t, "evaluated") =>
             Cardinality(standing[t] \ Range(th[t].result)) <= Cardinality(popped[t])

(* While the server runs, a tag leaves a sensor only when somebody removes  *)
(* that tag: adding a tag adds or updates one, and leaves the others.       *)
TagsLeaveByRemoval ==
    [][\A s \in tags', k \in Keys :
         k \in Range(lists[s]) \ Range(lists'[s]) =>
           \E t \in Threads : th[t].op = "remove_tag" /\ th[t].sensor = s /\ th[t].key = k]_vars
=============================================================================
