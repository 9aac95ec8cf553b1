--------------------------- MODULE HubMemoryProofs ---------------------------
(* Proofs about HubMemory, for every finite set of threads, whatever each   *)
(* exercises, all sets of sensors, keys and rules, and every limit.         *)
EXTENDS HubMemory, FiniteSetTheorems, TLAPS

Value == Keys \cup Sensors \cup Rules \cup Nat

TagPCs == {"create", "find", "look", "append", "append_to"}
RecordPCs == {"record", "enter", "measure", "slice", "trim"}
PCs == TagPCs \cup RecordPCs
         \cup {"idle", "filter", "replace", "search", "searched", "add_rule", "pop",
               "evaluate", "evaluated"}

Call == [pc : PCs, op : Operations \cup {"none"}, sensor : Sensors \cup {0},
         key : Keys \cup {0}, list : Sensors \cup Replaced \cup {0}, pos : Nat,
         result : Seq(Value), visited : SUBSET Sensors]

(* Every thread is where its operation can be.                              *)
CallInv(t) ==
    /\ th[t].op \in does[t] \cup {"none"}
    /\ th[t].op = "none" <=> th[t].pc = "idle"
    /\ th[t].op = "add_tag" <=> th[t].pc \in TagPCs
    /\ th[t].op = "remove_tag" <=> th[t].pc \in {"filter", "replace"}
    /\ th[t].op = "find_by_tag" <=> th[t].pc \in {"search", "searched"}
    /\ th[t].op = "evaluate" <=> th[t].pc \in {"evaluate", "evaluated"}
    /\ th[t].pc = "pop" => th[t].pos > 0

CallsInv ==
    /\ does \in [Threads -> SUBSET Operations]
    /\ th \in [Threads -> Call]
    /\ \A t \in Threads : CallInv(t)

(* The lists, and what the threads that use them hold: a sensor that is in  *)
(* the dictionary, and its list or one that was replaced.                   *)
HasList == {"look", "append_to", "filter"}

ListInv(t) ==
    /\ th[t].pc \in TagPCs \cup {"filter", "replace"} => th[t].sensor \in Sensors /\ th[t].key \in Keys
    /\ th[t].pc \in {"find", "look", "append", "append_to", "filter", "replace"} => th[t].sensor \in tags
    /\ th[t].list # 0 <=> \/ th[t].pc \in HasList
                          \/ th[t].pc = "search" /\ th[t].pos > 0
    /\ th[t].list \in Sensors => th[t].list \in tags
    /\ th[t].op = "remove_tag" => th[t].result \in Seq(Keys)
    /\ th[t].pc = "filter" => th[t].pos > 0

ListsInv ==
    /\ tags \subseteq Sensors /\ IsFiniteSet(tags)
    /\ lists \in [Sensors \cup Replaced -> Seq(Keys)]
    /\ \A s \in Sensors \ tags : lists[s] = <<>>
    /\ \A t \in Threads : ListInv(t)

(* A search has found the standing sensors it has visited, or is going      *)
(* through the list of one and has the tag still before it.                 *)
Ahead(t) == \E i \in 1 .. Len(lists[th[t].list]) :
              i >= th[t].pos /\ lists[th[t].list][i] = th[t].key

SearchInv(t) == th[t].op = "find_by_tag" =>
    /\ th[t].result # <<>>
    /\ \A s \in standing[t] : s \in tags /\ th[t].key \in Range(lists[s])
    /\ th[t].pc = "search" =>
         \A s \in standing[t] \cap th[t].visited :
           s \in Found(t) \/ (th[t].pos > 0 /\ s = th[t].sensor /\ Ahead(t))
    /\ th[t].pc = "searched" => standing[t] \subseteq Found(t)

SearchesInv == \A t \in Threads : SearchInv(t)

(* The rules are distinct, and so are those an evaluation has applied.  It  *)
(* has applied as many as it has gone past: none of those before it, and    *)
(* those it has applied are still there or were removed meanwhile.  So what *)
(* it went past unapplied makes up for what was removed.                    *)
RuleInv(t) ==
    /\ th[t].op # "evaluate" => popped[t] = {}
    /\ th[t].op = "evaluate" =>
         /\ th[t].result \in Seq(Rules) /\ IsInjective(th[t].result)
         /\ th[t].pos \in Nat \ {0} /\ Len(th[t].result) = th[t].pos - 1
         /\ IsFiniteSet(popped[t]) /\ popped[t] \cap Range(rules) = {}
         /\ Range(th[t].result) \subseteq Range(rules) \cup popped[t]
         /\ standing[t] \subseteq Range(rules)
    /\ th[t].pc = "evaluate" =>
         \A i \in 1 .. Len(rules) : i >= th[t].pos => rules[i] \notin Range(th[t].result)
    /\ th[t].pc = "evaluated" =>
         Cardinality(standing[t] \ Range(th[t].result)) <= Cardinality(popped[t])

RulesInv ==
    /\ rules \in Seq(Rules)
    /\ IsInjective(rules)
    /\ \A t \in Threads : RuleInv(t)

(* A thread that has yet to add its entry adds one at most; one that trims  *)
(* leaves at most the limit.                                                *)
LogInv ==
    /\ entries \in Nat
    /\ entries <= MaxEntries + Cardinality(Recording)
    /\ \A t \in Threads : /\ At(t, "enter") => th[t].pos \in {0, 1}
                          /\ At(t, "trim") => th[t].pos <= MaxEntries

HistoryInv == standing \in [Threads -> SUBSET (Sensors \cup Rules)] /\ DOMAIN popped = Threads

Inv == CallsInv /\ ListsInv /\ SearchesInv /\ RulesInv /\ LogInv /\ HistoryInv

-----------------------------------------------------------------------------
LEMMA IdleCall == Idle \in Call
BY DEF Idle, Call, PCs, Value

(* Of as many replaced lists as there are threads one is free, as long as   *)
(* one thread holds none.                                                   *)
LEMMA UnusedIsFree ==
    ASSUME NEW t \in Threads, th[t].list \notin Replaced
    PROVE  Unused \in Replaced /\ \A u \in Threads : th[u].list # Unused
<1> DEFINE Others == Threads \ {t}
           Holder == [n \in Replaced |-> CHOOSE u \in Threads : th[u].list = n]
<1>1. /\ Cardinality(Threads) \in Nat
      /\ IsFiniteSet(Others) /\ Cardinality(Others) = Cardinality(Threads) - 1
  BY ThreadsAssumption, FS_CardinalityType, FS_RemoveElement
<1>2. Cardinality(Threads) # 0
  BY ThreadsAssumption, FS_EmptySet
<1>3. IsFiniteSet(Replaced) /\ Cardinality(Replaced) = Cardinality(Threads)
  BY <1>1, <1>2, FS_Interval DEF Replaced
<1>4. \E n \in Replaced : \A u \in Threads : th[u].list # n
  <2> SUFFICES ASSUME \A n \in Replaced : \E u \in Threads : th[u].list = n PROVE FALSE
    OBVIOUS
  <2>1. \A n \in Replaced : Holder[n] \in Threads /\ th[Holder[n]].list = n
    OBVIOUS
  <2>2. Holder \in [Replaced -> Others]
    BY <2>1
  <2> HIDE DEF Holder, Others
  <2>3. PICK x \in Replaced, y \in Replaced : x # y /\ Holder[x] = Holder[y]
    BY <1>1, <1>3, <2>2, FS_PigeonHole
  <2> QED
    BY <2>1, <2>3
<1> QED
  BY <1>4 DEF Unused

(* A step replaces the call of its thread; Create and Replace also say that *)
(* others hold a replaced list now, and Trim that they hold an old log.     *)
LEMMA NewCall ==
    ASSUME CallsInv, NEW t \in Threads, NEW c \in Call, th' = [th EXCEPT ![t] = c]
    PROVE  /\ th' \in [Threads -> Call] /\ th'[t] = c
           /\ \A u \in Threads \ {t} : th'[u] = th[u]
BY DEF CallsInv

LEMMA OthersKept ==
    ASSUME CallsInv, ListsInv, NEW t \in Threads, NEW s \in Sensors, NEW c \in Call,
           th[t].list = 0, OthersKeep(t, s, c)
    PROVE  /\ Unused \in Replaced /\ \A u \in Threads : th[u].list # Unused
           /\ th' \in [Threads -> Call] /\ th'[t] = c
           /\ \A u \in Threads \ {t} : th'[u] = [th[u] EXCEPT !.list = IF @ = s THEN Unused ELSE @]
<1>1. Unused \in Replaced /\ \A u \in Threads : th[u].list # Unused
  BY UnusedIsFree DEF Replaced
<1>2. \A u \in Threads : th[u] \in Call
  BY DEF CallsInv
<1>3. ASSUME NEW u \in Threads \ {t}
      PROVE  /\ th'[u] = [th[u] EXCEPT !.list = IF @ = s THEN Unused ELSE @]
             /\ th'[u] \in Call
  <2>1. CASE th[u].list = s
    <3>1. th'[u] = [th[u] EXCEPT !.list = Unused]
      BY <2>1 DEF OthersKeep
    <3> QED
      BY <1>1, <1>2, <2>1, <3>1, ZenonT(60) DEF Call
  <2>2. CASE th[u].list # s
    <3>1. th'[u] = th[u]
      BY <2>2 DEF OthersKeep
    <3> QED
      BY <1>2, <2>2, <3>1 DEF Call
  <2> QED
    BY <2>1, <2>2
<1>4. th'[t] = c
  BY DEF OthersKeep
<1>5. th' = [u \in Threads |-> th'[u]]
  BY DEF OthersKeep
<1> QED
  BY <1>1, <1>3, <1>4, <1>5

(* What a step of thread t does to the calls: c is the new one of t.        *)
Moves(t, c) ==
    /\ th' \in [Threads -> Call] /\ th'[t] = c
    /\ \A u \in Threads \ {t} :
         /\ th'[u].op = th[u].op /\ th'[u].pc = th[u].pc /\ th'[u].key = th[u].key
         /\ th'[u].sensor = th[u].sensor /\ th'[u].result = th[u].result
         /\ th'[u].visited = th[u].visited
         /\ th[u].pc # "enter" => th'[u].pos = th[u].pos

CallOK(t, c) ==
    /\ c \in Call
    /\ c.op \in does[t] \cup {"none"}
    /\ c.op = "none" <=> c.pc = "idle"
    /\ c.op = "add_tag" <=> c.pc \in TagPCs
    /\ c.op = "remove_tag" <=> c.pc \in {"filter", "replace"}
    /\ c.op = "find_by_tag" <=> c.pc \in {"search", "searched"}
    /\ c.op = "evaluate" <=> c.pc \in {"evaluate", "evaluated"}
    /\ c.pc = "pop" => c.pos > 0

LEMMA MovesKeepCalls ==
    ASSUME CallsInv, NEW t \in Threads, NEW c, CallOK(t, c), Moves(t, c), does' = does
    PROVE  CallsInv'
<1>1. CallInv(t)'
  BY DEF CallOK, Moves, CallInv
<1>2. ASSUME NEW u \in Threads \ {t} PROVE CallInv(u)'
  BY <1>2 DEF Moves, CallInv, CallsInv
<1> QED
  BY <1>1, <1>2 DEF CallsInv, Moves

LEMMA NewCallMoves ==
    ASSUME CallsInv, NEW t \in Threads, NEW c \in Call, th' = [th EXCEPT ![t] = c]
    PROVE  Moves(t, c)
BY NewCall DEF Moves

LEMMA IdleOK == ASSUME NEW t PROVE CallOK(t, Idle)
BY IdleCall DEF CallOK, Idle, TagPCs

-----------------------------------------------------------------------------
(* The history.                                                             *)
Watched(t) ==
    /\ th[t].op # "none" => standing'[t] \subseteq standing[t]
    /\ th'[t].op = "find_by_tag" => \A s \in standing'[t] : s \in Sensors /\ th'[t].key \in Range(lists'[s])
    /\ th'[t].op = "evaluate" => standing'[t] \subseteq Range(rules')
    /\ th'[t].op # "evaluate" => popped'[t] = {}
    /\ th'[t].op = "evaluate" => popped'[t] = popped[t] \cup (Range(rules) \ Range(rules'))

LEMMA Watching ==
    ASSUME Observe, NEW t \in Threads
    PROVE  Watched(t)
<1>1. /\ th[t].op = "none" => standing'[t] = ThereFor(t)
      /\ th[t].op # "none" => standing'[t] = standing[t] \cap ThereFor(t)
  BY DEF Observe
<1>2. standing'[t] \subseteq ThereFor(t)
  BY <1>1
<1>3. th'[t].op = "find_by_tag" => ThereFor(t) = Holding(lists', th'[t].key)
  BY DEF ThereFor
<1>4. th'[t].op = "evaluate" => ThereFor(t) = Range(rules')
  BY DEF ThereFor
<1>5. /\ th'[t].op # "evaluate" => popped'[t] = {}
      /\ th'[t].op = "evaluate" => popped'[t] = popped[t] \cup (Range(rules) \ Range(rules'))
  BY DEF Observe
<1> QED
  BY <1>1, <1>2, <1>3, <1>4, <1>5 DEF Watched, Holding

LEMMA HistoryKept ==
    ASSUME HistoryInv, Observe, rules' \in Seq(Rules)
    PROVE  HistoryInv'
<1>1. ASSUME NEW t \in Threads PROVE ThereFor(t) \subseteq Sensors \cup Rules
  BY DEF ThereFor, Holding, Range
<1>2. \A t \in Threads : standing[t] \subseteq Sensors \cup Rules
  BY DEF HistoryInv
<1>3. \A t \in Threads : standing'[t] \subseteq Sensors \cup Rules
  BY <1>1, <1>2 DEF Observe
<1> QED
  BY <1>3 DEF HistoryInv, Observe

LEMMA FiniteRange ==
    ASSUME NEW S, NEW s \in Seq(S)
    PROVE  IsFiniteSet(Range(s))
<1>1. s \in Surjection(1 .. Len(s), Range(s))
  BY DEF Surjection, Range
<1> QED
  BY <1>1, FS_Surjection, FS_Interval

-----------------------------------------------------------------------------
(* A step that has nothing to do with the tags, the rules or the log leaves *)
(* what holds of them.                                                      *)
ListOK(c) ==
    /\ c.pc \in TagPCs \cup {"filter", "replace"} => c.sensor \in Sensors /\ c.key \in Keys
    /\ c.pc \in {"find", "look", "append", "append_to", "filter", "replace"} => c.sensor \in tags'
    /\ c.list # 0 <=> \/ c.pc \in HasList
                      \/ c.pc = "search" /\ c.pos > 0
    /\ c.list \in Sensors => c.list \in tags'
    /\ c.op = "remove_tag" => c.result \in Seq(Keys)
    /\ c.pc = "filter" => c.pos > 0

\* The others hold what they held, or a replaced list where they held s.
OthersHold(t) ==
    \A u \in Threads \ {t} :
      th'[u].list = th[u].list \/ (th[u].list # 0 /\ th'[u].list \in Replaced)

LEMMA ListsKept ==
    ASSUME Inv, NEW t \in Threads, NEW c, Moves(t, c), ListOK(c), OthersHold(t),
           tags \subseteq tags', tags' \subseteq Sensors, IsFiniteSet(tags'),
           lists' \in [Sensors \cup Replaced -> Seq(Keys)],
           \A s \in Sensors \ tags' : lists'[s] = <<>>
    PROVE  ListsInv'
<1>1. ListInv(t)'
  BY DEF ListOK, ListInv, Moves
<1>2. ASSUME NEW u \in Threads \ {t} PROVE ListInv(u)'
  <2>1. ListInv(u)
    BY DEF Inv, ListsInv
  <2>2. /\ th'[u].op = th[u].op /\ th'[u].pc = th[u].pc /\ th'[u].key = th[u].key
        /\ th'[u].sensor = th[u].sensor /\ th'[u].result = th[u].result
        /\ th[u].pc # "enter" => th'[u].pos = th[u].pos
    BY DEF Moves, OthersHold
  <2>3. th'[u].list # 0 <=> th[u].list # 0
    BY DEF OthersHold, Replaced
  <2>4. th'[u].list \in Sensors => th'[u].list = th[u].list
    BY SensorsAssumption DEF OthersHold, Replaced
  <2> QED
    BY <2>1, <2>2, <2>3, <2>4 DEF ListInv, HasList
<1> QED
  BY <1>1, <1>2 DEF ListsInv

ListsFollow(t) ==
    \A u \in Threads \ {t} : th[u].list # 0 =>
      /\ Len(lists[th[u].list]) <= Len(lists'[th'[u].list])
      /\ \A i \in 1 .. Len(lists[th[u].list]) : lists'[th'[u].list][i] = lists[th[u].list][i]

LEMMA SearchesKept ==
    ASSUME Inv, Observe, NEW t \in Threads, NEW c, Moves(t, c), OthersHold(t), ListsFollow(t),
           ListsInv', SearchInv(t)', tags \subseteq tags'
    PROVE  SearchesInv'
<1> SUFFICES ASSUME NEW u \in Threads \ {t}, th'[u].op = "find_by_tag" PROVE SearchInv(u)'
  BY DEF SearchesInv, SearchInv
<1>1. /\ th[u].op = "find_by_tag" /\ th'[u].pc = th[u].pc /\ th'[u].key = th[u].key
      /\ th'[u].sensor = th[u].sensor /\ th'[u].result = th[u].result
      /\ th'[u].visited = th[u].visited
  BY DEF Moves
<1>2. SearchInv(u) /\ CallInv(u) /\ ListInv(u) /\ th[u] \in Call
  BY DEF Inv, SearchesInv, CallsInv, ListsInv
<1>3. th[u].pc # "enter" /\ th'[u].pos = th[u].pos
  BY <1>1, <1>2 DEF CallInv, Moves
<1>4. /\ standing'[u] \subseteq standing[u]
      /\ \A s \in standing'[u] : s \in tags' /\ th'[u].key \in Range(lists'[s])
  BY <1>1, <1>2, Watching DEF Watched, SearchInv
<1>5. Found(u)' = Found(u)
  BY <1>1 DEF Found
<1>6. ASSUME th[u].pc = "search", th[u].pos > 0, Ahead(u) PROVE Ahead(u)'
  <2>1. th[u].list # 0
    BY <1>2, <1>6 DEF ListInv
  <2>2. PICK i \in 1 .. Len(lists[th[u].list]) : i >= th[u].pos /\ lists[th[u].list][i] = th[u].key
    BY <1>6 DEF Ahead
  <2>3. th'[u].list # 0 /\ th'[u].list \in Sensors \cup Replaced
    BY <2>1, <1>2 DEF OthersHold, Replaced, Call
  <2>4. Len(lists[th[u].list]) \in Nat /\ Len(lists'[th'[u].list]) \in Nat
    BY <1>2, <2>1, <2>3 DEF Inv, ListsInv, Call
  <2>5. i \in 1 .. Len(lists'[th'[u].list]) /\ lists'[th'[u].list][i] = th[u].key
    BY <2>1, <2>2, <2>4 DEF ListsFollow
  <2> QED
    BY <1>1, <1>3, <2>2, <2>5 DEF Ahead
<1> QED
  BY <1>1, <1>2, <1>3, <1>4, <1>5, <1>6 DEF SearchInv

LEMMA TagsUndisturbed ==
    ASSUME Inv, Observe, NEW t \in Threads, NEW c, Moves(t, c), CallOK(t, c),
           UNCHANGED registry, c.list = 0,
           c.op \notin {"add_tag", "remove_tag", "find_by_tag"},
           \A u \in Threads \ {t} : th'[u].list = th[u].list
    PROVE  ListsInv' /\ SearchesInv'
<1>1. OthersHold(t) /\ ListsFollow(t)
  <2>1. ASSUME NEW u \in Threads \ {t}, th[u].list # 0 PROVE Len(lists[th[u].list]) \in Nat
    BY <2>1 DEF Inv, CallsInv, ListsInv, Call
  <2> QED
    BY <2>1 DEF OthersHold, ListsFollow, registry
<1>2. ListOK(c)
  BY SensorsAssumption DEF ListOK, CallOK, HasList, TagPCs
<1>3. ListsInv'
  BY <1>1, <1>2, ListsKept DEF Inv, ListsInv, registry
<1>4. SearchInv(t)'
  BY DEF SearchInv, Moves
<1> QED
  BY <1>1, <1>3, <1>4, SearchesKept DEF registry

LEMMA RulesOfOthers ==
    ASSUME Inv, Observe, NEW t \in Threads, NEW c, Moves(t, c), rules' = rules,
           NEW u \in Threads \ {t}
    PROVE  RuleInv(u)'
<1>0. RuleInv(u) /\ CallInv(u)
  BY DEF Inv, RulesInv, CallsInv
<1>1. /\ th'[u].op = th[u].op /\ th'[u].pc = th[u].pc /\ th'[u].result = th[u].result
  BY DEF Moves
<1>2. CASE th[u].op # "evaluate"
  BY <1>0, <1>1, <1>2, Watching DEF RuleInv, Watched, CallInv
<1>3. CASE th[u].op = "evaluate"
  <2>1. th'[u].pos = th[u].pos
    BY <1>0, <1>3 DEF CallInv, Moves
  <2>2. popped'[u] = popped[u] /\ standing'[u] \subseteq standing[u]
    <3>1. Watched(u)
      BY Watching
    <3>2. popped'[u] = popped[u] \cup (Range(rules) \ Range(rules'))
      BY <1>1, <1>3, <3>1 DEF Watched
    <3>3. standing'[u] \subseteq standing[u]
      BY <1>3, <3>1 DEF Watched
    <3> QED
      BY <3>2, <3>3
  <2>3. th[u].pc = "evaluated" =>
          Cardinality(standing'[u] \ Range(th[u].result)) <= Cardinality(popped[u])
    <3> SUFFICES ASSUME th[u].pc = "evaluated"
                 PROVE  Cardinality(standing'[u] \ Range(th[u].result)) <= Cardinality(popped[u])
      OBVIOUS
    <3>1. IsFiniteSet(Range(rules)) /\ standing[u] \subseteq Range(rules)
      BY <1>0, <1>3, FiniteRange DEF RuleInv, Inv, RulesInv
    <3>2. IsFiniteSet(standing[u] \ Range(th[u].result))
      BY <3>1, FS_Subset
    <3>3. /\ Cardinality(standing'[u] \ Range(th[u].result))
             <= Cardinality(standing[u] \ Range(th[u].result))
          /\ IsFiniteSet(standing'[u] \ Range(th[u].result))
      BY <2>2, <3>2, FS_Subset
    <3>4. IsFiniteSet(popped[u])
      BY <1>0, <1>3 DEF RuleInv
    <3> QED
      BY <1>0, <3>2, <3>3, <3>4, FS_CardinalityType DEF RuleInv
  <2> QED
    BY <1>0, <1>1, <1>3, <2>1, <2>2, <2>3 DEF RuleInv
<1> QED
  BY <1>2, <1>3

LEMMA RulesUndisturbed ==
    ASSUME Inv, Observe, NEW t \in Threads, NEW c, Moves(t, c), CallOK(t, c),
           rules' = rules, c.op # "evaluate"
    PROVE  RulesInv'
<1>1. RuleInv(t)'
  <2>1. th'[t].pc \notin {"evaluate", "evaluated"}
    BY DEF CallOK, Moves
  <2>2. th'[t].op # "evaluate" /\ popped'[t] = {}
    BY Watching DEF Watched, Moves
  <2> QED
    BY <2>1, <2>2 DEF RuleInv
<1> QED
  BY <1>1, RulesOfOthers DEF Inv, RulesInv

LEMMA LogUndisturbed ==
    ASSUME Inv, NEW t \in Threads, NEW c, Moves(t, c), entries' = entries,
           th[t].pc \notin {"measure", "slice", "trim"},
           c.pc \notin {"enter", "measure", "slice", "trim"},
           \A u \in Threads \ {t} : th'[u].pos = th[u].pos
    PROVE  LogInv'
<1>1. ASSUME NEW u \in Threads
      PROVE  /\ u \in Recording <=> u \in Recording'
             /\ th'[u].pc = "enter" => th'[u].pos \in {0, 1}
             /\ th'[u].pc = "trim" => th'[u].pos <= MaxEntries
  BY DEF Moves, Recording, Inv, LogInv, At
<1>2. Recording' = Recording
  BY <1>1 DEF Recording
<1> QED
  BY <1>1, <1>2 DEF Inv, LogInv, At

-----------------------------------------------------------------------------
(* Steps that add, remove and look for tags.                                *)
LEMMA TagStep ==
    ASSUME Inv, Observe, does' = does, rules' = rules, entries' = entries,
           NEW t \in Threads, NEW c, CallOK(t, c), Moves(t, c), ListOK(c), OthersHold(t),
           c.op # "evaluate", c.pc \notin RecordPCs, th[t].pc \notin RecordPCs,
           \A u \in Threads \ {t} : th'[u].pos = th[u].pos,
           tags \subseteq tags', tags' \subseteq Sensors, IsFiniteSet(tags'),
           lists' \in [Sensors \cup Replaced -> Seq(Keys)],
           \A s \in Sensors \ tags' : lists'[s] = <<>>,
           ListsFollow(t), SearchInv(t)'
    PROVE  Inv'
<1>1. CallsInv'
  BY MovesKeepCalls DEF Inv
<1>2. ListsInv'
  BY ListsKept
<1>3. SearchesInv'
  BY <1>2, SearchesKept
<1>4. RulesInv'
  BY RulesUndisturbed
<1>5. LogInv'
  BY LogUndisturbed DEF RecordPCs
<1>6. HistoryInv'
  BY HistoryKept DEF Inv, RulesInv
<1> QED
  BY <1>1, <1>2, <1>3, <1>4, <1>5, <1>6 DEF Inv

LEMMA Freed ==
    ASSUME NEW contents \in [Sensors \cup Replaced -> Seq(Keys)], Free(contents)
    PROVE  /\ lists' \in [Sensors \cup Replaced -> Seq(Keys)]
           /\ \A s \in Sensors : lists'[s] = contents[s]
           /\ \A u \in Threads : th'[u].list \in Sensors \cup Replaced =>
                                  lists'[th'[u].list] = contents[th'[u].list]
<1>1. <<>> \in Seq(Keys)
  OBVIOUS
<1> QED
  BY <1>1 DEF Free

\* One that changes no list.
LEMMA LookingStep ==
    ASSUME Inv, Observe, does' = does, rules' = rules, entries' = entries, tags' = tags,
           UNCHANGED lists \/ Free(lists),
           NEW t \in Threads, NEW c, CallOK(t, c), th' = [th EXCEPT ![t] = c], ListOK(c),
           c.op # "evaluate", c.pc \notin RecordPCs, th[t].pc \notin RecordPCs,
           SearchInv(t)'
    PROVE  Inv'
<1>1. Moves(t, c) /\ \A u \in Threads \ {t} : th'[u] = th[u]
  BY NewCall, NewCallMoves DEF Inv, CallOK
<1>2. OthersHold(t)
  BY <1>1 DEF OthersHold
<1>3. lists \in [Sensors \cup Replaced -> Seq(Keys)]
  BY DEF Inv, ListsInv
<1>4. /\ lists' \in [Sensors \cup Replaced -> Seq(Keys)]
      /\ \A s \in Sensors : lists'[s] = lists[s]
      /\ \A u \in Threads : th'[u].list \in Sensors \cup Replaced =>
                             lists'[th'[u].list] = lists[th'[u].list]
  BY <1>3, Freed
<1>5. ListsFollow(t)
  <2> SUFFICES ASSUME NEW u \in Threads \ {t}, th[u].list # 0
               PROVE  /\ lists'[th'[u].list] = lists[th[u].list]
                      /\ lists[th[u].list] \in Seq(Keys)
    BY DEF ListsFollow
  <2>1. th[u].list \in Sensors \cup Replaced /\ th'[u] = th[u]
    BY <1>1 DEF Inv, CallsInv, Call
  <2> QED
    BY <1>3, <1>4, <2>1
<1> QED
  BY <1>1, <1>2, <1>4, <1>5, TagStep DEF Inv, ListsInv

LEMMA AddTagStep ==
    ASSUME Inv, Observe, does' = does,
           NEW t \in Threads, NEW s \in Sensors, NEW k \in Keys, AddTag(t, s, k)
    PROVE  Inv'
<1> DEFINE pc == IF s \notin tags THEN "create" ELSE "find"
           c == [Idle EXCEPT !.op = "add_tag", !.sensor = s, !.key = k, !.pc = pc]
<1>1. c \in Call
  BY IdleCall, ZenonT(60) DEF Call, PCs, TagPCs, Operations
<1>2. c.op = "add_tag" /\ c.pc = pc /\ c.sensor = s /\ c.key = k /\ c.list = 0
  BY DEF Idle
<1>3. /\ At(t, "idle") /\ "add_tag" \in does[t] /\ UNCHANGED <<registry, rules, entries>>
      /\ th' = [th EXCEPT ![t] = c]
  BY DEF AddTag
<1>4. pc \in {"create", "find"} /\ (pc = "find" => s \in tags)
  OBVIOUS
<1> HIDE DEF c, pc
<1>5. CallOK(t, c) /\ ListOK(c) /\ th[t].pc = "idle" /\ c.pc \notin RecordPCs
  BY <1>1, <1>2, <1>3, <1>4, SensorsAssumption DEF CallOK, ListOK, TagPCs, RecordPCs, At, HasList, registry
<1>6. SearchInv(t)'
  BY <1>2, <1>3, <1>5, NewCall DEF SearchInv, Inv, CallOK
<1> QED
  BY <1>2, <1>3, <1>5, <1>6, LookingStep DEF RecordPCs, registry

LEMMA LookUpStep ==
    ASSUME Inv, Observe, does' = does, NEW t \in Threads,
           NEW from, NEW to, <<from, to>> \in {<<"find", "look">>, <<"append", "append_to">>},
           LookUp(t, from, to)
    PROVE  Inv'
<1> DEFINE c == [th[t] EXCEPT !.pc = to, !.list = th[t].sensor]
<1>0. th[t] \in Call /\ th[t].pc = from /\ CallInv(t) /\ ListInv(t)
  BY DEF LookUp, At, Inv, CallsInv, ListsInv
<1>1. c \in Call /\ th[t].sensor \in tags /\ tags \subseteq Sensors /\ th[t].key \in Keys
  BY <1>0 DEF Call, PCs, TagPCs, ListInv, Inv, ListsInv
<1>2. c.op = th[t].op /\ c.pc = to /\ c.sensor = th[t].sensor /\ c.key = th[t].key
      /\ c.list = th[t].sensor
  BY <1>0 DEF Call
<1>3. th' = [th EXCEPT ![t] = c]
  BY DEF LookUp
<1>4. UNCHANGED <<tags, rules, entries>> /\ Free(lists)
  BY DEF LookUp
<1> HIDE DEF c
<1>5. CallOK(t, c) /\ ListOK(c) /\ th[t].pc \notin RecordPCs /\ c.pc \notin RecordPCs
  BY <1>0, <1>1, <1>2, <1>4, SensorsAssumption DEF CallOK, CallInv, ListOK, TagPCs, RecordPCs, HasList
<1>6. c.op = "add_tag"
  BY <1>0, <1>2 DEF CallInv, TagPCs
<1>7. SearchInv(t)'
  BY <1>1, <1>3, <1>6, NewCall DEF SearchInv, Inv
<1> QED
  BY <1>3, <1>4, <1>5, <1>6, <1>7, LookingStep

LEMMA FindExistingStep ==
    ASSUME Inv, Observe, does' = does, NEW t \in Threads, FindExisting(t)
    PROVE  Inv'
<1>0. /\ th[t] \in Call /\ th[t].pc = "look" /\ CallInv(t) /\ ListInv(t)
      /\ UNCHANGED <<tags, rules, entries>> /\ Free(lists)
  BY DEF FindExisting, At, Inv, CallsInv, ListsInv
<1>1. CASE Finish(t)
  <2>1. ListOK(Idle) /\ Idle.op = "none" /\ Idle.pc = "idle"
    BY SensorsAssumption DEF ListOK, Idle, TagPCs, HasList
  <2>2. SearchInv(t)'
    BY <1>1, <2>1, IdleCall, NewCall DEF SearchInv, Inv, Finish
  <2> QED
    BY <1>0, <1>1, <2>1, <2>2, IdleOK, LookingStep DEF Finish, RecordPCs
<1>2. CASE th' = [th EXCEPT ![t].pc = "append", ![t].list = 0]
  <2> DEFINE c == [th[t] EXCEPT !.pc = "append", !.list = 0]
  <2>1. c \in Call
    BY <1>0 DEF Call, PCs, TagPCs
  <2>2. /\ c.op = th[t].op /\ c.pc = "append" /\ c.sensor = th[t].sensor /\ c.key = th[t].key
        /\ c.list = 0
    BY <1>0 DEF Call
  <2>3. th' = [th EXCEPT ![t] = c]
    BY <1>2
  <2> HIDE DEF c
  <2>4. CallOK(t, c) /\ ListOK(c) /\ c.op = "add_tag"
    BY <1>0, <2>1, <2>2, SensorsAssumption DEF CallOK, CallInv, ListInv, ListOK, TagPCs, HasList
  <2>5. SearchInv(t)'
    BY <2>1, <2>3, <2>4, NewCall DEF SearchInv, Inv
  <2> QED
    BY <1>0, <2>2, <2>3, <2>4, <2>5, LookingStep DEF RecordPCs
<1> QED
  BY <1>1, <1>2 DEF FindExisting

LEMMA RemoveTagStep ==
    ASSUME Inv, Observe, does' = does,
           NEW t \in Threads, NEW s \in Sensors, NEW k \in Keys, RemoveTag(t, s, k)
    PROVE  Inv'
<1> DEFINE c == [Idle EXCEPT !.op = "remove_tag", !.sensor = s, !.key = k, !.pc = "filter",
                            !.list = s, !.pos = 1]
<1>1. c \in Call
  BY IdleCall DEF Call, PCs, Operations
<1>2. /\ c.op = "remove_tag" /\ c.pc = "filter" /\ c.sensor = s /\ c.key = k /\ c.list = s
      /\ c.pos = 1 /\ c.result = <<>>
  BY DEF Idle
<1>3. /\ th[t].pc = "idle" /\ "remove_tag" \in does[t] /\ s \in tags
      /\ UNCHANGED <<registry, rules, entries>> /\ th' = [th EXCEPT ![t] = c]
  BY DEF RemoveTag, At
<1> HIDE DEF c
<1>4. CallOK(t, c) /\ ListOK(c)
  BY <1>1, <1>2, <1>3, SensorsAssumption DEF CallOK, ListOK, TagPCs, HasList, registry
<1>5. SearchInv(t)'
  BY <1>1, <1>2, <1>3, NewCall DEF SearchInv, Inv
<1> QED
  BY <1>2, <1>3, <1>4, <1>5, LookingStep DEF RecordPCs, registry

LEMMA FilterStep ==
    ASSUME Inv, Observe, does' = does, NEW t \in Threads, Filter(t)
    PROVE  Inv'
<1> DEFINE list == lists[th[t].list]
           through == [th EXCEPT ![t].pc = "replace", ![t].pos = 0, ![t].list = 0]
           without == [th EXCEPT ![t].pos = @ + 1]
           with == [th EXCEPT ![t].pos = @ + 1, ![t].result = Append(@, list[th[t].pos])]
<1>0. /\ th[t] \in Call /\ th[t].pc = "filter" /\ CallInv(t) /\ ListInv(t)
      /\ th[t].op = "remove_tag" /\ UNCHANGED <<tags, rules, entries>> /\ Free(lists)
  BY DEF Filter, At, Inv, CallsInv, ListsInv, CallInv
<1>1. /\ th[t].list \in Sensors \cup Replaced /\ list \in Seq(Keys)
      /\ th[t].pos \in Nat \ {0} /\ th[t].result \in Seq(Keys)
  BY <1>0 DEF ListInv, HasList, Call, Inv, ListsInv
<1>2. ASSUME NEW c \in Call, c.op = "remove_tag", c.pc \in {"filter", "replace"},
             c.sensor = th[t].sensor, c.key = th[t].key, c.result \in Seq(Keys),
             c.pc = "filter" => c.list = th[t].list /\ c.pos > 0, c.pc = "replace" => c.list = 0,
             th' = [th EXCEPT ![t] = c]
      PROVE  Inv'
  <2>1. CallOK(t, c) /\ ListOK(c)
    BY <1>0, <1>2, SensorsAssumption DEF CallOK, CallInv, ListInv, ListOK, TagPCs, HasList
  <2>2. SearchInv(t)'
    BY <1>2, NewCall DEF SearchInv, Inv
  <2> QED
    BY <1>0, <1>2, <2>1, <2>2, LookingStep DEF RecordPCs
<1>3. CASE th' = through
  <2> DEFINE c == [th[t] EXCEPT !.pc = "replace", !.pos = 0, !.list = 0]
  <2>1. c \in Call
    BY <1>0 DEF Call, PCs
  <2>2. /\ c.op = th[t].op /\ c.pc = "replace" /\ c.sensor = th[t].sensor /\ c.key = th[t].key
        /\ c.list = 0 /\ c.result = th[t].result /\ th' = [th EXCEPT ![t] = c]
    BY <1>0, <1>3 DEF Call
  <2> HIDE DEF c
  <2> QED
    BY <1>0, <1>1, <1>2, <2>1, <2>2
<1>4. CASE th' = without
  <2> DEFINE c == [th[t] EXCEPT !.pos = @ + 1]
  <2>1. c \in Call /\ c.pos > 0
    BY <1>0, <1>1, SMTT(30) DEF Call
  <2>2. /\ c.op = th[t].op /\ c.pc = "filter" /\ c.sensor = th[t].sensor /\ c.key = th[t].key
        /\ c.list = th[t].list /\ c.result = th[t].result /\ th' = [th EXCEPT ![t] = c]
    BY <1>0, <1>4 DEF Call
  <2> HIDE DEF c
  <2> QED
    BY <1>0, <1>1, <1>2, <2>1, <2>2
<1>5. CASE th[t].pos <= Len(list) /\ th' = with
  <2> DEFINE kept == Append(th[t].result, list[th[t].pos])
             c == [th[t] EXCEPT !.pos = @ + 1, !.result = kept]
  <2>1. list[th[t].pos] \in Keys
    BY <1>1, <1>5
  <2>2. kept \in Seq(Keys) /\ kept \in Seq(Value)
    BY <1>0, <1>1, <2>1 DEF Value, Call
  <2>3. th' = [th EXCEPT ![t] = c]
    BY <1>0, <1>5 DEF Inv, CallsInv
  <2> HIDE DEF kept
  <2>4. c \in Call /\ c.pos > 0
    <3>1. th[t].pos + 1 \in Nat /\ th[t].pos + 1 > 0 /\ kept \in Seq(Value)
      BY <1>1, <2>2
    <3>2. c.pos = th[t].pos + 1
      BY <1>0 DEF Call
    <3> QED
      BY <1>0, <3>1, <3>2 DEF Call
  <2>5. /\ c.op = th[t].op /\ c.pc = "filter" /\ c.sensor = th[t].sensor /\ c.key = th[t].key
        /\ c.list = th[t].list /\ c.result = kept
    BY <1>0 DEF Call
  <2> HIDE DEF c
  <2> QED
    BY <1>0, <1>1, <1>2, <2>2, <2>3, <2>4, <2>5
<1>6. th' = through \/ th' = without \/ (th[t].pos <= Len(list) /\ th' = with)
  BY Zenon DEF Filter
<1> HIDE DEF through, without, with
<1> QED
  BY <1>3, <1>4, <1>5, <1>6

LEMMA AppendTagStep ==
    ASSUME Inv, Observe, does' = does, NEW t \in Threads, AppendTag(t)
    PROVE  Inv'
<1> DEFINE held == th[t].list
           longer == [lists EXCEPT ![held] = Append(@, th[t].key)]
<1>0. /\ th[t] \in Call /\ th[t].pc = "append_to" /\ CallInv(t) /\ ListInv(t)
      /\ UNCHANGED <<tags, rules, entries>> /\ Free(longer) /\ th' = [th EXCEPT ![t] = Idle]
  BY DEF AppendTag, Finish, At, Inv, CallsInv, ListsInv
<1>1. /\ held \in Sensors \cup Replaced
      /\ held \in Sensors => held \in tags
      /\ th[t].key \in Keys /\ lists \in [Sensors \cup Replaced -> Seq(Keys)]
  BY <1>0 DEF ListInv, HasList, Call, Inv, ListsInv, TagPCs
<1>2. /\ longer \in [Sensors \cup Replaced -> Seq(Keys)]
      /\ \A l \in Sensors \cup Replaced :
           /\ Len(lists[l]) <= Len(longer[l])
           /\ \A i \in 1 .. Len(lists[l]) : longer[l][i] = lists[l][i]
      /\ \A s \in Sensors \ tags : longer[s] = lists[s]
  <2> DEFINE new == Append(lists[held], th[t].key)
  <2>1. /\ new \in Seq(Keys) /\ Len(lists[held]) <= Len(new)
        /\ \A i \in 1 .. Len(lists[held]) : new[i] = lists[held][i]
    BY <1>1
  <2>2. /\ longer[held] = new
        /\ \A l \in (Sensors \cup Replaced) \ {held} : longer[l] = lists[l]
        /\ DOMAIN longer = Sensors \cup Replaced
        /\ longer = [l \in Sensors \cup Replaced |-> longer[l]]
    BY <1>1
  <2> HIDE DEF new, longer, held
  <2>3. \A l \in Sensors \cup Replaced : Len(lists[l]) \in Nat
    BY <1>1
  <2>4. \A l \in Sensors \cup Replaced : longer[l] \in Seq(Keys)
    BY <1>1, <2>1, <2>2
  <2>5. longer \in [Sensors \cup Replaced -> Seq(Keys)]
    BY <2>2, <2>4
  <2>6. \A s \in Sensors \ tags : longer[s] = lists[s]
    BY <1>1, <2>2
  <2>7. ASSUME NEW l \in Sensors \cup Replaced
        PROVE  /\ Len(lists[l]) <= Len(longer[l])
               /\ \A i \in 1 .. Len(lists[l]) : longer[l][i] = lists[l][i]
    <3>1. CASE l = held
      BY <2>1, <2>2, <3>1
    <3>2. CASE l # held
      <4>1. longer[l] = lists[l]
        BY <2>2, <3>2
      <4> QED
        BY <2>3, <4>1
    <3> QED
      BY <3>1, <3>2
  <2> QED
    BY <2>5, <2>6, <2>7
<1> HIDE DEF longer
<1>3. /\ lists' \in [Sensors \cup Replaced -> Seq(Keys)]
      /\ \A s \in Sensors : lists'[s] = longer[s]
      /\ \A u \in Threads : th'[u].list \in Sensors \cup Replaced =>
                             lists'[th'[u].list] = longer[th'[u].list]
  BY <1>0, <1>2, Freed
<1>4. Moves(t, Idle) /\ \A u \in Threads \ {t} : th'[u] = th[u]
  BY <1>0, NewCall, NewCallMoves, IdleCall DEF Inv
<1>5. OthersHold(t)
  BY <1>4 DEF OthersHold
<1>6. ListsFollow(t)
  <2> SUFFICES ASSUME NEW u \in Threads \ {t}, th[u].list # 0
               PROVE  th'[u].list = th[u].list /\ th[u].list \in Sensors \cup Replaced
    BY <1>2, <1>3 DEF ListsFollow
  <2> QED
    BY <1>4 DEF Inv, CallsInv, Call
<1>7. ListOK(Idle) /\ Idle.op = "none" /\ Idle.pc = "idle"
  BY SensorsAssumption DEF ListOK, Idle, TagPCs, HasList
<1>8. SearchInv(t)'
  BY <1>4, <1>7 DEF SearchInv, Moves
<1>9. \A s \in Sensors \ tags' : lists'[s] = <<>>
  BY <1>0, <1>2, <1>3 DEF Inv, ListsInv
<1> QED
  BY <1>0, <1>3, <1>4, <1>5, <1>6, <1>7, <1>8, <1>9, IdleOK, TagStep DEF Inv, ListsInv, RecordPCs

\* Create and Replace: sensor s gets another list, the others keep the old.
LEMMA NewListStep ==
    ASSUME Inv, Observe, does' = does, UNCHANGED <<rules, entries>>,
           NEW t \in Threads, NEW s \in Sensors, NEW c, CallOK(t, c), ListOK(c),
           NEW contents \in Seq(Keys),
           th[t].list = 0, OthersKeep(t, s, c),
           Free([lists EXCEPT ![Unused] = lists[s], ![s] = contents]),
           tags' = tags \cup {s}, c.op # "evaluate", c.op # "find_by_tag",
           c.pc \notin RecordPCs, th[t].pc \notin RecordPCs
    PROVE  Inv'
<1> DEFINE next == [lists EXCEPT ![Unused] = lists[s], ![s] = contents]
<1>1. /\ Unused \in Replaced /\ \A u \in Threads : th[u].list # Unused
      /\ th' \in [Threads -> Call] /\ th'[t] = c
      /\ \A u \in Threads \ {t} : th'[u] = [th[u] EXCEPT !.list = IF @ = s THEN Unused ELSE @]
  BY OthersKept DEF Inv, CallOK
<1>2. Unused \notin Sensors /\ lists \in [Sensors \cup Replaced -> Seq(Keys)]
  BY <1>1, SensorsAssumption DEF Replaced, Inv, ListsInv
<1>3. /\ next \in [Sensors \cup Replaced -> Seq(Keys)]
      /\ next[Unused] = lists[s] /\ next[s] = contents
      /\ \A l \in (Sensors \cup Replaced) \ {Unused, s} : next[l] = lists[l]
  BY <1>1, <1>2
<1>4. Free(next)
  OBVIOUS
<1> HIDE DEF next
<1>5. /\ lists' \in [Sensors \cup Replaced -> Seq(Keys)]
      /\ \A l \in Sensors : lists'[l] = next[l]
      /\ \A u \in Threads : th'[u].list \in Sensors \cup Replaced =>
                             lists'[th'[u].list] = next[th'[u].list]
  BY <1>3, <1>4, Freed
<1>6. ASSUME NEW u \in Threads \ {t}
      PROVE  /\ th'[u].list = IF th[u].list = s THEN Unused ELSE th[u].list
             /\ th'[u].pos = th[u].pos /\ th'[u].op = th[u].op /\ th'[u].pc = th[u].pc
             /\ th'[u].key = th[u].key /\ th'[u].sensor = th[u].sensor
             /\ th'[u].result = th[u].result /\ th'[u].visited = th[u].visited
             /\ th[u].list \in Sensors \cup Replaced \cup {0}
             /\ th[u].list # Unused
  BY <1>1, <1>6 DEF Inv, CallsInv, Call
<1>7. Moves(t, c)
  BY <1>1, <1>6 DEF Moves
<1>8. OthersHold(t)
  BY <1>1, <1>6, SensorsAssumption DEF OthersHold
<1>9. ListsFollow(t)
  <2> SUFFICES ASSUME NEW u \in Threads \ {t}, th[u].list # 0
               PROVE  lists'[th'[u].list] = lists[th[u].list] /\ lists[th[u].list] \in Seq(Keys)
    BY DEF ListsFollow
  <2>1. th'[u].list \in Sensors \cup Replaced /\ th[u].list \in Sensors \cup Replaced
    BY <1>1, <1>6
  <2>2. lists'[th'[u].list] = next[th'[u].list]
    BY <1>5, <2>1
  <2> QED
    BY <1>2, <1>3, <1>6, <2>1, <2>2, ZenonT(60)
<1>10. SearchInv(t)'
  BY <1>1 DEF SearchInv
<1>11. /\ tags \subseteq tags' /\ tags' \subseteq Sensors /\ IsFiniteSet(tags')
       /\ \A l \in Sensors \ tags' : lists'[l] = <<>>
  BY <1>2, <1>3, <1>5, FS_AddElement DEF Inv, ListsInv
<1> QED
  BY <1>5, <1>6, <1>7, <1>8, <1>9, <1>10, <1>11, TagStep

LEMMA CreateStep ==
    ASSUME Inv, Observe, does' = does, NEW t \in Threads, Create(t)
    PROVE  Inv'
<1> DEFINE s == th[t].sensor
           c == [th[t] EXCEPT !.pc = "find"]
<1>0. /\ th[t] \in Call /\ th[t].pc = "create" /\ CallInv(t) /\ ListInv(t)
      /\ UNCHANGED <<rules, entries>> /\ OthersKeep(t, s, c) /\ tags' = tags \cup {s}
      /\ Free([lists EXCEPT ![Unused] = lists[s], ![s] = <<>>])
  BY DEF Create, At, Inv, CallsInv, ListsInv
<1>1. th[t].list = 0 /\ s \in Sensors /\ th[t].key \in Keys /\ <<>> \in Seq(Keys)
  BY <1>0 DEF ListInv, HasList, TagPCs
<1>2. /\ c \in Call /\ c.op = th[t].op /\ c.pc = "find" /\ c.sensor = s /\ c.key = th[t].key
      /\ c.list = 0
  BY <1>0, <1>1 DEF Call, PCs, TagPCs
<1> HIDE DEF c
<1>3. CallOK(t, c) /\ ListOK(c) /\ c.op = "add_tag"
  BY <1>0, <1>1, <1>2, SensorsAssumption DEF CallOK, CallInv, ListOK, TagPCs, HasList
<1> HIDE DEF s
<1> QED
  BY <1>0, <1>1, <1>2, <1>3, NewListStep DEF RecordPCs

LEMMA ReplaceStep ==
    ASSUME Inv, Observe, does' = does, NEW t \in Threads, Replace(t)
    PROVE  Inv'
<1> DEFINE s == th[t].sensor
<1>0. /\ th[t].pc = "replace" /\ CallInv(t) /\ ListInv(t)
      /\ UNCHANGED <<rules, entries>> /\ OthersKeep(t, s, Idle) /\ tags' = tags
      /\ Free([lists EXCEPT ![Unused] = lists[s], ![s] = th[t].result])
  BY DEF Replace, Replacing, At, Inv, CallsInv, ListsInv
<1>1. th[t].list = 0 /\ s \in Sensors /\ th[t].result \in Seq(Keys) /\ tags' = tags \cup {s}
  BY <1>0 DEF ListInv, CallInv, HasList
<1>2. ListOK(Idle) /\ Idle.op = "none" /\ Idle.pc = "idle"
  BY SensorsAssumption DEF ListOK, Idle, TagPCs, HasList
<1> HIDE DEF s
<1> QED
  BY <1>0, <1>1, <1>2, IdleOK, NewListStep DEF RecordPCs

-----------------------------------------------------------------------------
(* Steps of a search.                                                       *)
LEMMA SearchStep ==
    ASSUME Inv, Observe, does' = does, NEW t \in Threads, NEW k \in Keys, Search(t, k)
    PROVE  Inv'
<1> DEFINE size == <<Cardinality(tags)>>
           c == [Idle EXCEPT !.op = "find_by_tag", !.key = k, !.pc = "search", !.result = size]
<1>0. /\ th[t].pc = "idle" /\ "find_by_tag" \in does[t] /\ CallInv(t) /\ th[t].op = "none"
      /\ UNCHANGED <<registry, rules, entries>> /\ th' = [th EXCEPT ![t] = c]
  BY DEF Search, At, Inv, CallsInv, CallInv
<1>1. size \in Seq(Value) /\ size # <<>>
  <2>1. Cardinality(tags) \in Nat
    BY FS_CardinalityType DEF Inv, ListsInv
  <2> QED
    BY <2>1 DEF Value
<1> HIDE DEF size
<1>2. c \in Call
  BY <1>1, IdleCall DEF Call, PCs, Operations
<1>3. /\ c.op = "find_by_tag" /\ c.pc = "search" /\ c.key = k /\ c.list = 0 /\ c.pos = 0
      /\ c.result = size /\ c.visited = {}
  BY DEF Idle
<1> HIDE DEF c
<1>4. CallOK(t, c) /\ ListOK(c)
  BY <1>0, <1>2, <1>3, SensorsAssumption DEF CallOK, ListOK, TagPCs, HasList
<1>5. th'[t] = c
  BY <1>0, <1>2, NewCall DEF Inv
<1>6. \A s \in standing'[t] : s \in Sensors /\ k \in Range(lists'[s])
  BY <1>3, <1>5, Watching DEF Watched
<1>7. ASSUME NEW s \in standing'[t] PROVE s \in tags'
  <2> SUFFICES ASSUME s \notin tags PROVE FALSE
    BY <1>0 DEF registry
  <2>1. lists'[s] = <<>> /\ k \in Range(lists'[s])
    BY <1>0, <1>6 DEF Inv, ListsInv, registry
  <2> QED
    BY <2>1 DEF Range
<1>8. SearchInv(t)'
  BY <1>1, <1>3, <1>5, <1>6, <1>7 DEF SearchInv
<1> QED
  BY <1>0, <1>3, <1>4, <1>8, LookingStep DEF RecordPCs, registry

\* A step of a search, whatever its new call, unless it returns.
LEMMA SearchGoesOn ==
    ASSUME Inv, Observe, does' = does, UNCHANGED <<tags, rules, entries>>,
           UNCHANGED lists \/ Free(lists),
           NEW t \in Threads, th[t].pc = "search",
           NEW c \in Call, th' = [th EXCEPT ![t] = c], c.op = "find_by_tag",
           c.key = th[t].key, c.pc \in {"search", "searched"}, c.result # <<>>,
           c.list # 0 <=> c.pc = "search" /\ c.pos > 0,
           c.list \in Sensors => c.list \in tags,
           \A s \in standing'[t] \cap c.visited :
             s \in Found(t)' \/ (c.pc = "search" /\ c.pos > 0 /\ s = c.sensor /\ Ahead(t)'),
           c.pc = "searched" => tags \subseteq c.visited
    PROVE  Inv'
<1>0. CallInv(t) /\ SearchInv(t) /\ th[t].op = "find_by_tag"
  BY DEF Inv, CallsInv, SearchesInv, CallInv
<1>1. CallOK(t, c) /\ ListOK(c)
  BY <1>0 DEF CallOK, CallInv, ListOK, TagPCs, HasList
<1>2. th'[t] = c
  BY NewCall DEF Inv
<1>3. \A s \in standing'[t] : s \in tags' /\ c.key \in Range(lists'[s])
  BY <1>0, <1>2, Watching DEF Watched, SearchInv
<1>4. c.pc = "searched" => standing'[t] \subseteq Found(t)'
  BY <1>3
<1>5. SearchInv(t)'
  BY <1>2, <1>3, <1>4 DEF SearchInv
<1> QED
  BY <1>1, <1>5, LookingStep DEF RecordPCs

LEMMA NextSensorStep ==
    ASSUME Inv, Observe, does' = does, NEW t \in Threads, NextSensor(t)
    PROVE  Inv'
<1>0. /\ th[t] \in Call /\ th[t].pc = "search" /\ th[t].pos = 0 /\ CallInv(t) /\ ListInv(t)
      /\ SearchInv(t) /\ th[t].op = "find_by_tag" /\ th[t].list = 0
      /\ UNCHANGED <<tags, lists, rules, entries>>
  <2>1. /\ th[t].pc = "search" /\ th[t].pos = 0
        /\ UNCHANGED <<tags, lists, rules, entries>>
    BY DEF NextSensor, At, registry
  <2>2. th[t] \in Call /\ CallInv(t) /\ ListInv(t) /\ SearchInv(t)
    BY DEF Inv, CallsInv, ListsInv, SearchesInv
  <2>3. th[t].op = "find_by_tag" /\ th[t].list = 0
    BY <2>1, <2>2 DEF CallInv, ListInv, HasList
  <2> QED
    BY <2>1, <2>2, <2>3
<1>1. standing'[t] \subseteq standing[t]
  BY <1>0, Watching DEF Watched
<1>2. \A s \in standing'[t] \cap th[t].visited : s \in Found(t)
  BY <1>0, <1>1 DEF SearchInv
<1>3. CASE Finish(t)
  <2>1. ListOK(Idle) /\ Idle.op = "none" /\ Idle.pc = "idle"
    BY SensorsAssumption DEF ListOK, Idle, TagPCs, HasList
  <2>2. SearchInv(t)'
    BY <1>3, <2>1, IdleCall, NewCall DEF SearchInv, Inv, Finish
  <2> QED
    BY <1>0, <1>3, <2>1, <2>2, IdleOK, LookingStep DEF Finish, RecordPCs
<1>4. CASE tags \ th[t].visited = {} /\ GoTo(t, "searched")
  <2> DEFINE c == [th[t] EXCEPT !.pc = "searched"]
  <2>1. c \in Call
    BY <1>0 DEF Call, PCs
  <2>2. /\ c.op = th[t].op /\ c.pc = "searched" /\ c.key = th[t].key /\ c.list = 0
        /\ c.result = th[t].result /\ c.visited = th[t].visited /\ th' = [th EXCEPT ![t] = c]
    BY <1>0, <1>4 DEF Call, GoTo
  <2> HIDE DEF c
  <2>3. Found(t)' = Found(t)
    BY <2>1, <2>2, NewCall DEF Found, Inv
  <2> QED
    BY <1>0, <1>2, <1>4, <2>1, <2>2, <2>3, SearchGoesOn, SensorsAssumption, ZenonT(60) DEF SearchInv
<1>5. ASSUME NEW s \in tags \ th[t].visited,
             th' = [th EXCEPT ![t].sensor = s, ![t].list = s, ![t].pos = 1,
                              ![t].visited = @ \cup {s}]
      PROVE  Inv'
  <2> DEFINE c == [th[t] EXCEPT !.sensor = s, !.list = s, !.pos = 1, !.visited = @ \cup {s}]
  <2>0. s \in Sensors /\ s # 0
    BY SensorsAssumption DEF Inv, ListsInv
  <2>1. c \in Call
    BY <1>0, <2>0 DEF Call
  <2>2. /\ c.op = th[t].op /\ c.pc = "search" /\ c.key = th[t].key /\ c.list = s
        /\ c.sensor = s /\ c.pos = 1
        /\ c.result = th[t].result /\ c.visited = th[t].visited \cup {s}
    BY <1>0 DEF Call
  <2>3. th' = [th EXCEPT ![t] = c]
    BY <1>0, <1>5 DEF Inv, CallsInv
  <2> HIDE DEF c
  <2>4. Found(t)' = Found(t) /\ th'[t] = c
    BY <2>1, <2>2, <2>3, NewCall DEF Found, Inv
  <2>5. ASSUME s \in standing'[t] PROVE Ahead(t)'
    <3>1. c.key \in Range(lists'[s])
      BY <1>0, <2>2, <2>4, <2>5, Watching DEF Watched
    <3>2. lists'[s] \in Seq(Keys)
      BY <1>0, <2>0 DEF Inv, ListsInv
    <3>3. PICK i \in 1 .. Len(lists'[s]) : lists'[s][i] = c.key
      BY <3>1, <3>2 DEF Range
    <3>4. i >= 1
      BY <3>2, <3>3
    <3> QED
      BY <2>2, <2>4, <3>3, <3>4 DEF Ahead
  <2>6. c.list \in Sensors => c.list \in tags
    BY <1>5, <2>2
  <2>7. \A q \in standing'[t] \cap c.visited :
          q \in Found(t)' \/ (c.pc = "search" /\ c.pos > 0 /\ q = c.sensor /\ Ahead(t)')
    BY <1>2, <2>2, <2>4, <2>5
  <2>8. c.result # <<>>
    BY <1>0, <2>2 DEF SearchInv
  <2>9. c.list # 0 <=> c.pc = "search" /\ c.pos > 0
    BY <2>0, <2>2
  <2> QED
    BY <1>0, <2>1, <2>2, <2>3, <2>6, <2>7, <2>8, <2>9, SearchGoesOn
<1> QED
  BY <1>3, <1>4, <1>5 DEF NextSensor

LEMMA OneMoreFound ==
    ASSUME NEW S, NEW r \in Seq(S), r # <<>>, NEW x \in S
    PROVE  /\ Append(r, x) \in Seq(S) /\ Append(r, x) # <<>>
           /\ Range(Tail(Append(r, x))) = Range(Tail(r)) \cup {x}
<1>1. /\ Append(r, x) \in Seq(S) /\ Len(r) \in Nat /\ Len(r) >= 1
      /\ Len(Append(r, x)) = Len(r) + 1
      /\ \A i \in 1 .. Len(r) : Append(r, x)[i] = r[i]
      /\ Append(r, x)[Len(r) + 1] = x
  OBVIOUS
<1>2. /\ Tail(r) \in Seq(S) /\ Len(Tail(r)) = Len(r) - 1
      /\ \A i \in 1 .. Len(r) - 1 : Tail(r)[i] = r[i + 1]
  BY <1>1
<1>3. /\ Append(r, x) # <<>> /\ Tail(Append(r, x)) \in Seq(S) /\ Len(Tail(Append(r, x))) = Len(r)
      /\ \A i \in 1 .. Len(r) : Tail(Append(r, x))[i] = Append(r, x)[i + 1]
  BY <1>1
<1>4. DOMAIN Tail(r) = 1 .. Len(r) - 1 /\ DOMAIN Tail(Append(r, x)) = 1 .. Len(r)
  BY <1>2, <1>3
<1>5. ASSUME NEW v \in Range(Tail(Append(r, x))) PROVE v \in Range(Tail(r)) \cup {x}
  <2>1. PICK i \in 1 .. Len(r) : v = Append(r, x)[i + 1]
    BY <1>3, <1>4 DEF Range
  <2>2. CASE i = Len(r)
    BY <1>1, <2>1, <2>2
  <2>3. CASE i # Len(r)
    <3>1. i \in 1 .. Len(r) - 1 /\ i + 1 \in 1 .. Len(r)
      BY <1>1, <2>3
    <3>2. v = Tail(r)[i]
      BY <1>1, <1>2, <2>1, <3>1
    <3> QED
      BY <1>4, <3>1, <3>2 DEF Range
  <2> QED
    BY <2>2, <2>3
<1>6. x \in Range(Tail(Append(r, x)))
  <2>1. Len(r) \in 1 .. Len(r) /\ Tail(Append(r, x))[Len(r)] = x
    BY <1>1, <1>3
  <2> QED
    BY <1>4, <2>1 DEF Range
<1>7. ASSUME NEW v \in Range(Tail(r)) PROVE v \in Range(Tail(Append(r, x)))
  <2>1. PICK i \in 1 .. Len(r) - 1 : v = Tail(r)[i]
    BY <1>4 DEF Range
  <2>2. i \in 1 .. Len(r) /\ i + 1 \in 1 .. Len(r)
    BY <1>1
  <2>3. v = Tail(Append(r, x))[i]
    BY <1>1, <1>2, <1>3, <2>1, <2>2
  <2> QED
    BY <1>4, <2>2, <2>3 DEF Range
<1> QED
  BY <1>1, <1>3, <1>5, <1>6, <1>7

LEMMA NextTagStep ==
    ASSUME Inv, Observe, does' = does, NEW t \in Threads, NextTag(t)
    PROVE  Inv'
<1> DEFINE list == lists[th[t].list]
           past == [th EXCEPT ![t].pos = 0, ![t].list = 0]
           found == [th EXCEPT ![t].pos = 0, ![t].list = 0, ![t].result = Append(@, th[t].sensor)]
           further == [th EXCEPT ![t].pos = @ + 1]
<1>0. /\ th[t] \in Call /\ th[t].pc = "search" /\ th[t].pos > 0 /\ CallInv(t) /\ ListInv(t)
      /\ SearchInv(t) /\ UNCHANGED <<tags, rules, entries>> /\ Free(lists)
  BY DEF NextTag, At, Inv, CallsInv, ListsInv, SearchesInv
<1>1. th[t].op = "find_by_tag" /\ th[t].list # 0 /\ th[t].list \in Sensors \cup Replaced
  BY <1>0 DEF CallInv, ListInv, Call
<1>2. /\ lists \in [Sensors \cup Replaced -> Seq(Keys)] /\ list \in Seq(Keys)
      /\ th[t].pos \in Nat /\ Len(list) \in Nat
  BY <1>0, <1>1 DEF Call, Inv, ListsInv
<1>3. standing'[t] \subseteq standing[t]
  BY <1>1, Watching DEF Watched
<1>4. \A s \in standing'[t] \cap th[t].visited :
        s \in Found(t) \/ (s = th[t].sensor /\ Ahead(t))
  BY <1>0, <1>1, <1>3 DEF SearchInv
<1>5. th[t].result \in Seq(Value) /\ th[t].result # <<>> /\ th[t].sensor \in Value
  BY <1>0, <1>1 DEF SearchInv, Call, Value
<1>6. CASE th[t].pos > Len(list) /\ th' = past
  <2> DEFINE c == [th[t] EXCEPT !.pos = 0, !.list = 0]
  <2>1. c \in Call
    BY <1>0 DEF Call
  <2>2. /\ c.op = th[t].op /\ c.pc = "search" /\ c.key = th[t].key /\ c.list = 0 /\ c.pos = 0
        /\ c.result = th[t].result /\ c.visited = th[t].visited /\ th' = [th EXCEPT ![t] = c]
    BY <1>0, <1>6 DEF Call
  <2> HIDE DEF c
  <2>3. Found(t)' = Found(t)
    BY <2>1, <2>2, NewCall DEF Found, Inv
  <2>4. ~Ahead(t)
    BY <1>2, <1>6 DEF Ahead
  <2>5. \A s \in standing'[t] \cap c.visited : s \in Found(t)'
    BY <1>4, <2>2, <2>3, <2>4
  <2>6. c.list \notin Sensors /\ ~(c.pos > 0)
    BY <2>2, SensorsAssumption
  <2> QED
    BY <1>0, <1>1, <1>5, <2>1, <2>2, <2>5, <2>6, SearchGoesOn
<1>7. CASE th' = found
  <2> DEFINE longer == Append(th[t].result, th[t].sensor)
             c == [th[t] EXCEPT !.pos = 0, !.list = 0, !.result = longer]
  <2>1. /\ longer \in Seq(Value) /\ longer # <<>>
        /\ Range(Tail(longer)) = Range(Tail(th[t].result)) \cup {th[t].sensor}
    BY <1>5, OneMoreFound
  <2>2. th' = [th EXCEPT ![t] = c]
    BY <1>0, <1>7 DEF Inv, CallsInv
  <2> HIDE DEF longer
  <2>3. c \in Call
    BY <1>0, <2>1 DEF Call
  <2>4. /\ c.op = th[t].op /\ c.pc = "search" /\ c.key = th[t].key /\ c.list = 0 /\ c.pos = 0
        /\ c.result = longer /\ c.visited = th[t].visited
    BY <1>0 DEF Call
  <2> HIDE DEF c
  <2>5. Found(t)' = Found(t) \cup {th[t].sensor}
    BY <2>1, <2>2, <2>3, <2>4, NewCall DEF Found, Inv
  <2>6. \A s \in standing'[t] \cap c.visited : s \in Found(t)'
    BY <1>4, <2>4, <2>5
  <2>7. c.list \notin Sensors /\ ~(c.pos > 0)
    BY <2>4, SensorsAssumption
  <2> QED
    BY <1>0, <1>1, <2>1, <2>2, <2>3, <2>4, <2>6, <2>7, SearchGoesOn
<1>8. CASE th[t].pos <= Len(list) /\ list[th[t].pos] # th[t].key /\ th' = further
  <2> DEFINE c == [th[t] EXCEPT !.pos = @ + 1]
  <2>1. c \in Call /\ c.pos = th[t].pos + 1 /\ c.pos > 0
    BY <1>0, <1>2 DEF Call
  <2>2. /\ c.op = th[t].op /\ c.pc = "search" /\ c.key = th[t].key /\ c.list = th[t].list
        /\ c.sensor = th[t].sensor
        /\ c.result = th[t].result /\ c.visited = th[t].visited /\ th' = [th EXCEPT ![t] = c]
    BY <1>0, <1>8 DEF Call
  <2> HIDE DEF c
  <2>3. Found(t)' = Found(t) /\ th'[t] = c
    BY <2>1, <2>2, NewCall DEF Found, Inv
  <2>4. ASSUME Ahead(t) PROVE Ahead(t)'
    <3>1. PICK i \in 1 .. Len(list) : i >= th[t].pos /\ list[i] = th[t].key
      BY <2>4 DEF Ahead
    <3>2. i >= c.pos
      BY <1>2, <1>8, <2>1, <3>1
    <3>3. lists'[th'[t].list] = list
      <4>1. \A u \in Threads : th'[u].list \in Sensors \cup Replaced =>
                               lists'[th'[u].list] = lists[th'[u].list]
        BY <1>0, <1>2, Freed
      <4> QED
        BY <1>1, <2>2, <2>3, <4>1
    <3> QED
      BY <2>2, <2>3, <3>1, <3>2, <3>3 DEF Ahead
  <2>5. c.list \in Sensors => c.list \in tags
    BY <1>0, <2>2 DEF ListInv
  <2>6. \A s \in standing'[t] \cap c.visited :
          s \in Found(t)' \/ (c.pc = "search" /\ c.pos > 0 /\ s = c.sensor /\ Ahead(t)')
    BY <1>4, <2>1, <2>2, <2>3, <2>4
  <2> QED
    BY <1>0, <1>1, <1>5, <2>1, <2>2, <2>5, <2>6, SearchGoesOn
<1>9. \/ th[t].pos > Len(list) /\ th' = past
      \/ th' = found
      \/ th[t].pos <= Len(list) /\ list[th[t].pos] # th[t].key /\ th' = further
  BY Zenon DEF NextTag
<1> HIDE DEF past, found, further
<1> QED
  BY <1>6, <1>7, <1>8, <1>9

-----------------------------------------------------------------------------
(* Sequences without repetitions.                                           *)
LEMMA DistinctAppend ==
    ASSUME NEW S, NEW s \in Seq(S), IsInjective(s), NEW x \in S, x \notin Range(s)
    PROVE  /\ Append(s, x) \in Seq(S) /\ IsInjective(Append(s, x))
           /\ Len(Append(s, x)) = Len(s) + 1
           /\ Range(Append(s, x)) = Range(s) \cup {x}
<1> DEFINE new == Append(s, x)
<1>1. /\ Len(s) \in Nat /\ DOMAIN s = 1 .. Len(s)
      /\ new \in Seq(S) /\ Len(new) = Len(s) + 1 /\ DOMAIN new = 1 .. Len(s) + 1
      /\ \A i \in 1 .. Len(s) : new[i] = s[i]
      /\ new[Len(s) + 1] = x
  OBVIOUS
<1> HIDE DEF new
<1>2. \A i \in 1 .. Len(s) + 1 : i \in 1 .. Len(s) \/ i = Len(s) + 1
  BY <1>1
<1>3. \A i \in 1 .. Len(s) : new[i] \in Range(s) /\ new[i] # x
  BY <1>1 DEF Range
<1>4. IsInjective(new)
  <2> SUFFICES ASSUME NEW a \in DOMAIN new, NEW b \in DOMAIN new, new[a] = new[b] PROVE a = b
    BY DEF IsInjective
  <2>1. CASE a \in 1 .. Len(s) /\ b \in 1 .. Len(s)
    BY <1>1, <2>1 DEF IsInjective
  <2> QED
    BY <1>1, <1>2, <1>3, <2>1
<1>5. Range(new) = Range(s) \cup {x}
  <2>1. ASSUME NEW v \in Range(new) PROVE v \in Range(s) \cup {x}
    <3>1. PICK i \in 1 .. Len(s) + 1 : v = new[i]
      BY <1>1 DEF Range
    <3> QED
      BY <1>1, <1>2, <1>3, <3>1
  <2>2. ASSUME NEW v \in Range(s) PROVE v \in Range(new)
    BY <1>1 DEF Range
  <2>3. x \in Range(new)
    BY <1>1 DEF Range
  <2> QED
    BY <2>1, <2>2, <2>3
<1> QED
  BY <1>1, <1>4, <1>5 DEF new

LEMMA RemovedAt ==
    ASSUME NEW S, NEW s \in Seq(S), IsInjective(s), NEW n \in 1 .. Len(s)
    PROVE  /\ RemoveAt(s, n) \in Seq(S) /\ Len(RemoveAt(s, n)) = Len(s) - 1
           /\ \A i \in 1 .. Len(s) - 1 : RemoveAt(s, n)[i] = IF i < n THEN s[i] ELSE s[i + 1]
           /\ IsInjective(RemoveAt(s, n))
           /\ Range(RemoveAt(s, n)) \subseteq Range(s)
<1> DEFINE before == SubSeq(s, 1, n - 1)
           after == SubSeq(s, n + 1, Len(s))
           new == RemoveAt(s, n)
<1>1. /\ Len(s) \in Nat /\ DOMAIN s = 1 .. Len(s)
      /\ before \in Seq(S) /\ Len(before) = n - 1
      /\ \A i \in 1 .. n - 1 : before[i] = s[i]
  OBVIOUS
<1>2. /\ after \in Seq(S) /\ Len(after) = Len(s) - n
      /\ \A i \in 1 .. Len(s) - n : after[i] = s[i + n]
  OBVIOUS
<1>3. new = before \o after
  BY DEF RemoveAt
<1> HIDE DEF before, after, new
<1>4. new \in Seq(S) /\ Len(new) = Len(s) - 1 /\ DOMAIN new = 1 .. Len(s) - 1
  <2>1. before \in Seq(S) /\ after \in Seq(S)
    BY <1>1, <1>2
  <2>2. new \in Seq(S) /\ Len(new) = Len(before) + Len(after)
    BY <1>3, <2>1
  <2>3. DOMAIN new = 1 .. Len(new)
    BY <2>2
  <2> QED
    BY <1>1, <1>2, <2>2, <2>3
<1>5. ASSUME NEW i \in 1 .. Len(s) - 1 PROVE new[i] = IF i < n THEN s[i] ELSE s[i + 1]
  <2>1. CASE i < n
    <3>1. i \in 1 .. Len(before)
      BY <1>1, <2>1
    <3> QED
      BY <1>1, <1>2, <1>3, <2>1, <3>1
  <2>2. CASE ~(i < n)
    <3>1. i > Len(before) /\ i <= Len(before) + Len(after)
      BY <1>1, <1>2, <2>2
    <3>2. new[i] = after[i - Len(before)]
      BY <1>1, <1>2, <1>3, <3>1
    <3>3. i - Len(before) \in 1 .. Len(s) - n /\ (i - Len(before)) + n = i + 1
      BY <1>1, <2>2
    <3> QED
      BY <1>2, <2>2, <3>2, <3>3
  <2> QED
    BY <2>1, <2>2
<1>6. \A i \in 1 .. Len(s) - 1 : i \in 1 .. Len(s) /\ i + 1 \in 1 .. Len(s)
  BY <1>1
<1>7. IsInjective(new)
  <2> SUFFICES ASSUME NEW a \in 1 .. Len(s) - 1, NEW b \in 1 .. Len(s) - 1, new[a] = new[b]
               PROVE  a = b
    BY <1>4 DEF IsInjective
  <2> DEFINE old(i) == IF i < n THEN i ELSE i + 1
  <2>1. /\ new[a] = s[old(a)] /\ new[b] = s[old(b)]
        /\ old(a) \in 1 .. Len(s) /\ old(b) \in 1 .. Len(s)
    BY <1>5, <1>6
  <2>2. old(a) = old(b)
    BY <1>1, <2>1 DEF IsInjective
  <2> QED
    BY <1>1, <2>2
<1>8. Range(new) \subseteq Range(s)
  BY <1>1, <1>4, <1>5, <1>6 DEF Range
<1> QED
  BY <1>4, <1>5, <1>7, <1>8 DEF new

LEMMA DistinctCount ==
    ASSUME NEW S, NEW s \in Seq(S), IsInjective(s)
    PROVE  IsFiniteSet(Range(s)) /\ Cardinality(Range(s)) = Len(s)
<1>1. s \in Bijection(1 .. Len(s), Range(s)) /\ Len(s) \in Nat
  BY DEF Bijection, Surjection, Injection, Range
<1>2. ExistsBijection(1 .. Len(s), Range(s))
  BY <1>1 DEF ExistsBijection
<1>3. IsFiniteSet(1 .. Len(s)) /\ Cardinality(1 .. Len(s)) = Len(s)
  <2>1. Len(s) \in Int /\ 1 \in Int /\ (1 > Len(s) => Len(s) = 0)
    BY <1>1
  <2>2. /\ IsFiniteSet(1 .. Len(s))
        /\ Cardinality(1 .. Len(s)) = IF 1 > Len(s) THEN 0 ELSE Len(s) - 1 + 1
    BY <2>1, FS_Interval
  <2> QED
    BY <2>1, <2>2
<1> QED
  BY <1>2, <1>3, FS_Bijection

\* Of two finite sets the smaller has no more elements of its own.
LEMMA OwnElements ==
    ASSUME NEW P, NEW Q, IsFiniteSet(P), IsFiniteSet(Q), Cardinality(P) <= Cardinality(Q)
    PROVE  Cardinality(P \ Q) <= Cardinality(Q \ P)
<1>1. /\ Cardinality(P \ Q) = Cardinality(P) - Cardinality(P \cap Q)
      /\ Cardinality(Q \ P) = Cardinality(Q) - Cardinality(Q \cap P)
  BY FS_Difference
<1>2. P \cap Q = Q \cap P /\ IsFiniteSet(P \cap Q)
  BY FS_Intersection
<1>3. Cardinality(P) \in Nat /\ Cardinality(Q) \in Nat /\ Cardinality(P \cap Q) \in Nat
  BY <1>2, FS_CardinalityType
<1>4. Cardinality(Q \ P) = Cardinality(Q) - Cardinality(P \cap Q)
  BY <1>1, <1>2
<1> QED
  BY <1>1, <1>3, <1>4

-----------------------------------------------------------------------------
(* Steps that add, remove and apply rules.                                  *)

\* One that leaves the tags and the log alone.
LEMMA RuleStep ==
    ASSUME Inv, Observe, does' = does, UNCHANGED <<registry, entries>>,
           NEW t \in Threads, NEW c, CallOK(t, c), th' = [th EXCEPT ![t] = c], c.list = 0,
           c.op \notin {"add_tag", "remove_tag", "find_by_tag"},
           c.pc \notin {"enter", "measure", "slice", "trim"},
           th[t].pc \notin {"measure", "slice", "trim"},
           rules' \in Seq(Rules)
    PROVE  /\ CallsInv' /\ ListsInv' /\ SearchesInv' /\ LogInv' /\ HistoryInv'
           /\ Moves(t, c) /\ OthersHold(t) /\ th'[t] = c
           /\ \A u \in Threads \ {t} : th'[u] = th[u]
<1>1. Moves(t, c) /\ th'[t] = c /\ \A u \in Threads \ {t} : th'[u] = th[u]
  BY NewCall, NewCallMoves DEF Inv, CallOK
<1>2. OthersHold(t)
  BY <1>1 DEF OthersHold
<1>3. CallsInv'
  BY <1>1, MovesKeepCalls DEF Inv
<1>4. ListsInv' /\ SearchesInv'
  BY <1>1, TagsUndisturbed
<1>5. LogInv'
  BY <1>1, LogUndisturbed
<1>6. HistoryInv'
  BY HistoryKept DEF Inv
<1> QED
  BY <1>1, <1>2, <1>3, <1>4, <1>5, <1>6

\* One that leaves the rules alone, too.
LEMMA IdleStep ==
    ASSUME Inv, Observe, does' = does, UNCHANGED <<registry, rules, entries>>,
           NEW t \in Threads, NEW c, CallOK(t, c), th' = [th EXCEPT ![t] = c], c.list = 0,
           c.op \notin {"add_tag", "remove_tag", "find_by_tag", "evaluate"},
           c.pc \notin {"enter", "measure", "slice", "trim"},
           th[t].pc \notin {"measure", "slice", "trim"}
    PROVE  Inv'
<1>1. rules' \in Seq(Rules)
  BY DEF Inv, RulesInv
<1>2. /\ CallsInv' /\ ListsInv' /\ SearchesInv' /\ LogInv' /\ HistoryInv'
      /\ Moves(t, c) /\ OthersHold(t)
  BY <1>1, RuleStep
<1>3. RulesInv'
  BY <1>2, RulesUndisturbed
<1> QED
  BY <1>2, <1>3 DEF Inv

\* A call begins, or ends.
LEMMA BeginStep ==
    ASSUME Inv, Observe, does' = does, UNCHANGED <<registry, rules, entries>>,
           NEW t \in Threads, th[t].pc = "idle",
           NEW c \in Call, c.op \in {"add_rule", "record", "delete_rule"} \cap does[t],
           c.pc \in {"record", "pop"}, c.pc = "pop" => c.pos > 0, c.list = 0, th' = [th EXCEPT ![t] = c]
    PROVE  Inv'
<1>1. CallOK(t, c)
  BY DEF CallOK, TagPCs
<1> QED
  BY <1>1, IdleStep

LEMMA FinishStep ==
    ASSUME Inv, Observe, does' = does, UNCHANGED <<registry, rules, entries>>,
           NEW t \in Threads, Finish(t), th[t].pc \notin {"measure", "slice", "trim"}
    PROVE  Inv'
<1>1. Idle.op = "none" /\ Idle.pc = "idle" /\ Idle.list = 0
  BY DEF Idle
<1> QED
  BY <1>1, IdleOK, IdleStep DEF Finish

LEMMA AddRuleStep ==
    ASSUME Inv, Observe, does' = does, NEW t \in Threads, AddRule(t) \/ Record(t)
    PROVE  Inv'
<1>1. PICK op \in {"add_rule", "record"} :
        /\ op \in does[t] /\ th[t].pc = "idle" /\ UNCHANGED <<registry, rules, entries>>
        /\ th' = [th EXCEPT ![t] = [Idle EXCEPT !.op = op, !.pc = "record"]]
  BY DEF AddRule, Record, Begin
<1> DEFINE c == [Idle EXCEPT !.op = op, !.pc = "record"]
<1>2. c \in Call
  BY IdleCall DEF Call, PCs, RecordPCs, Operations
<1>3. c.op = op /\ c.pc = "record" /\ c.list = 0
  BY DEF Idle
<1> HIDE DEF c
<1> QED
  BY <1>1, <1>2, <1>3, BeginStep DEF c

LEMMA DeleteRuleStep ==
    ASSUME Inv, Observe, does' = does, NEW t \in Threads,
           NEW idx \in 1 .. Len(rules), DeleteRule(t, idx)
    PROVE  Inv'
<1> DEFINE c == [Idle EXCEPT !.op = "delete_rule", !.pc = "pop", !.pos = idx]
<1>1. idx \in Nat /\ idx > 0
  BY DEF Inv, RulesInv
<1>2. c \in Call
  BY <1>1, IdleCall DEF Call, PCs, Operations
<1>3. c.op = "delete_rule" /\ c.pc = "pop" /\ c.list = 0 /\ c.pos > 0
  BY <1>1 DEF Idle
<1>4. /\ th[t].pc = "idle" /\ "delete_rule" \in does[t] /\ UNCHANGED <<registry, rules, entries>>
      /\ th' = [th EXCEPT ![t] = c]
  BY DEF DeleteRule, At
<1> HIDE DEF c
<1> QED
  BY <1>2, <1>3, <1>4, BeginStep

LEMMA AppendRuleStep ==
    ASSUME Inv, Observe, does' = does, NEW t \in Threads, AppendRule(t)
    PROVE  Inv'
<1>0. /\ th[t].pc = "add_rule" /\ th' = [th EXCEPT ![t] = Idle]
      /\ UNCHANGED <<registry, entries>>
  BY DEF AppendRule, At, Finish
<1>1. PICK r \in Rules \ Range(rules) :
        /\ \A u \in Threads : r \notin Range(th[u].result) \cup popped[u]
        /\ rules' = Append(rules, r)
  BY DEF AppendRule, WithRule
<1>2. /\ rules \in Seq(Rules) /\ IsInjective(rules) /\ Len(rules) \in Nat
      /\ rules' \in Seq(Rules) /\ IsInjective(rules') /\ Len(rules') = Len(rules) + 1
      /\ Range(rules') = Range(rules) \cup {r}
      /\ \A i \in 1 .. Len(rules) : rules'[i] = rules[i]
      /\ rules'[Len(rules) + 1] = r
  BY <1>1, DistinctAppend DEF Inv, RulesInv
<1>3. Idle.op = "none" /\ Idle.pc = "idle" /\ Idle.list = 0
  BY DEF Idle
<1>4. /\ CallsInv' /\ ListsInv' /\ SearchesInv' /\ LogInv' /\ HistoryInv'
      /\ th'[t] = Idle /\ \A u \in Threads \ {t} : th'[u] = th[u]
  BY <1>0, <1>2, <1>3, IdleOK, RuleStep
<1>5. ASSUME NEW u \in Threads PROVE RuleInv(u)'
  <2>1. RuleInv(u) /\ CallInv(u) /\ Watched(u)
    BY Watching DEF Inv, RulesInv, CallsInv
  <2>2. CASE th'[u].op # "evaluate"
    <3>1. CallInv(u)' /\ popped'[u] = {}
      BY <1>4, <2>1, <2>2 DEF CallsInv, Watched
    <3> QED
      BY <2>2, <3>1 DEF RuleInv, CallInv
  <2>3. CASE th'[u].op = "evaluate"
    <3>1. th'[u] = th[u]
      BY <1>3, <1>4, <2>3
    <3>2. popped'[u] = popped[u]
      BY <1>2, <2>1, <2>3, <3>1 DEF Watched
    <3>3. standing'[u] \subseteq standing[u]
      BY <2>1, <2>3, <3>1 DEF Watched
    <3>4. \A i \in 1 .. Len(rules') : i \in 1 .. Len(rules) \/ i = Len(rules) + 1
      BY <1>2
    <3>5. th[u].pc = "evaluate" =>
            \A i \in 1 .. Len(rules') : i >= th[u].pos => rules'[i] \notin Range(th[u].result)
      BY <1>1, <1>2, <2>1, <3>4 DEF RuleInv
    <3>6. th[u].pc = "evaluated" =>
            Cardinality(standing'[u] \ Range(th[u].result)) <= Cardinality(popped[u])
      <4>1. IsFiniteSet(standing[u] \ Range(th[u].result)) /\ IsFiniteSet(popped[u])
        BY <1>2, <2>1, <2>3, <3>1, FiniteRange, FS_Subset DEF RuleInv
      <4>2. /\ Cardinality(standing'[u] \ Range(th[u].result))
                 <= Cardinality(standing[u] \ Range(th[u].result))
            /\ IsFiniteSet(standing'[u] \ Range(th[u].result))
        BY <3>3, <4>1, FS_Subset
      <4> QED
        BY <2>1, <4>1, <4>2, FS_CardinalityType DEF RuleInv
    <3> QED
      BY <1>1, <1>2, <2>1, <2>3, <3>1, <3>2, <3>3, <3>5, <3>6 DEF RuleInv
  <2> QED
    BY <2>2, <2>3
<1> QED
  BY <1>2, <1>4, <1>5 DEF Inv, RulesInv

LEMMA PopStep ==
    ASSUME Inv, Observe, does' = does, NEW t \in Threads, Pop(t)
    PROVE  Inv'
<1>0. /\ th[t].pc = "pop" /\ th[t] \in Call /\ CallInv(t) /\ ListInv(t)
      /\ UNCHANGED <<registry, entries>>
  BY DEF Pop, At, Inv, CallsInv, ListsInv
<1>1. CASE UNCHANGED rules /\ Finish(t)
  BY <1>0, <1>1, FinishStep
<1>2. CASE /\ th[t].pos <= Len(rules)
           /\ rules' = RemoveAt(rules, th[t].pos) /\ GoTo(t, "record")
  <2> DEFINE n == th[t].pos
             c == [th[t] EXCEPT !.pc = "record"]
  <2>1. /\ rules \in Seq(Rules) /\ IsInjective(rules) /\ Len(rules) \in Nat /\ n \in 1 .. Len(rules)
    BY <1>0, <1>2 DEF Inv, RulesInv, Call, CallInv
  <2>2. /\ rules' \in Seq(Rules) /\ IsInjective(rules') /\ Len(rules') = Len(rules) - 1
        /\ \A i \in 1 .. Len(rules) - 1 : rules'[i] = IF i < n THEN rules[i] ELSE rules[i + 1]
        /\ Range(rules') \subseteq Range(rules)
    BY <1>2, <2>1, RemovedAt
  <2>3. c \in Call
    BY <1>0 DEF Call, PCs, RecordPCs
  <2>4. c.op = th[t].op /\ c.pc = "record" /\ c.list = 0 /\ th' = [th EXCEPT ![t] = c]
    BY <1>0, <1>2 DEF Call, GoTo, ListInv, HasList
  <2> HIDE DEF n, c
  <2>5. CallOK(t, c) /\ c.op \notin {"add_tag", "remove_tag", "find_by_tag", "evaluate"}
    BY <1>0, <2>3, <2>4 DEF CallOK, CallInv, TagPCs
  <2>6. /\ CallsInv' /\ ListsInv' /\ SearchesInv' /\ LogInv' /\ HistoryInv'
        /\ th'[t] = c /\ \A u \in Threads \ {t} : th'[u] = th[u]
    BY <1>0, <2>2, <2>4, <2>5, RuleStep
  <2>7. ASSUME NEW u \in Threads PROVE RuleInv(u)'
    <3>1. RuleInv(u) /\ CallInv(u) /\ Watched(u)
      BY Watching DEF Inv, RulesInv, CallsInv
    <3>2. CASE th'[u].op # "evaluate"
      <4>1. CallInv(u)' /\ popped'[u] = {}
        BY <2>6, <3>1, <3>2 DEF CallsInv, Watched
      <4> QED
        BY <3>2, <4>1 DEF RuleInv, CallInv
    <3>3. CASE th'[u].op = "evaluate"
      <4>1. th'[u] = th[u] /\ th[u].op = "evaluate"
        BY <2>5, <2>6, <3>3
      <4>2. popped'[u] = popped[u] \cup (Range(rules) \ Range(rules'))
        BY <3>1, <3>3 DEF Watched
      <4>3. standing'[u] \subseteq standing[u] /\ standing'[u] \subseteq Range(rules')
        BY <3>1, <3>3, <4>1 DEF Watched
      <4>4. IsFiniteSet(popped[u]) /\ IsFiniteSet(Range(rules))
        BY <2>1, <3>1, <4>1, FiniteRange DEF RuleInv
      <4>5. /\ IsFiniteSet(popped'[u])
            /\ Cardinality(popped[u]) \in Nat /\ Cardinality(popped'[u]) \in Nat
            /\ Cardinality(popped[u]) <= Cardinality(popped'[u])
        <5>1. IsFiniteSet(popped'[u])
          BY <4>2, <4>4, FS_Subset, FS_Union, FS_Difference
        <5> QED
          BY <4>2, <4>4, <5>1, FS_Subset, FS_CardinalityType
      <4>6. popped'[u] \cap Range(rules') = {} /\ Range(th[u].result) \subseteq Range(rules') \cup popped'[u]
        BY <2>2, <3>1, <4>1, <4>2 DEF RuleInv
      <4>7. ASSUME th[u].pc = "evaluate", NEW i \in 1 .. Len(rules'), i >= th[u].pos
            PROVE  rules'[i] \notin Range(th[u].result)
        <5>1. th[u].pos \in Nat
          BY <3>1, <4>1 DEF RuleInv
        <5>2. i \in 1 .. Len(rules) - 1 /\ i \in 1 .. Len(rules) /\ i + 1 \in 1 .. Len(rules)
              /\ i + 1 >= th[u].pos
          BY <2>1, <2>2, <4>7, <5>1
        <5> QED
          BY <2>2, <3>1, <4>7, <5>2 DEF RuleInv
      <4>8. th[u].pc = "evaluated" =>
              Cardinality(standing'[u] \ Range(th[u].result)) <= Cardinality(popped'[u])
        <5>1. IsFiniteSet(standing[u] \ Range(th[u].result))
          BY <3>1, <4>1, <4>4, FS_Subset DEF RuleInv
        <5>2. /\ Cardinality(standing'[u] \ Range(th[u].result))
                   <= Cardinality(standing[u] \ Range(th[u].result))
              /\ IsFiniteSet(standing'[u] \ Range(th[u].result))
          BY <4>3, <5>1, FS_Subset
        <5> QED
          BY <3>1, <4>5, <5>1, <5>2, FS_CardinalityType DEF RuleInv
      <4> QED
        BY <3>1, <4>1, <4>3, <4>5, <4>6, <4>7, <4>8 DEF RuleInv
    <3> QED
      BY <3>2, <3>3
  <2> QED
    BY <2>2, <2>6, <2>7 DEF Inv, RulesInv
<1> QED
  BY <1>1, <1>2 DEF Pop

LEMMA EvaluateStep ==
    ASSUME Inv, Observe, does' = does, NEW t \in Threads, Evaluate(t)
    PROVE  Inv'
<1> DEFINE c == [Idle EXCEPT !.op = "evaluate", !.pc = "evaluate", !.pos = 1]
<1>0. /\ th[t].pc = "idle" /\ "evaluate" \in does[t] /\ th' = [th EXCEPT ![t] = c]
      /\ UNCHANGED <<registry, rules, entries>> /\ CallInv(t) /\ RuleInv(t) /\ rules \in Seq(Rules)
  BY DEF Evaluate, At, Inv, CallsInv, RulesInv
<1>1. c \in Call
  BY IdleCall DEF Call, PCs, Operations
<1>2. /\ c.op = "evaluate" /\ c.pc = "evaluate" /\ c.pos = 1 /\ c.list = 0 /\ c.result = <<>>
  BY DEF Idle
<1> HIDE DEF c
<1>3. CallOK(t, c)
  BY <1>0, <1>1, <1>2 DEF CallOK, TagPCs
<1>4. /\ CallsInv' /\ ListsInv' /\ SearchesInv' /\ LogInv' /\ HistoryInv'
      /\ Moves(t, c) /\ th'[t] = c
  BY <1>0, <1>2, <1>3, RuleStep
<1>5. RuleInv(t)'
  <2>1. popped[t] = {} /\ th'[t].op = "evaluate"
    BY <1>0, <1>2, <1>4 DEF CallInv, RuleInv
  <2>2. popped'[t] = {} /\ standing'[t] \subseteq Range(rules')
    <3>1. popped'[t] = popped[t] \cup (Range(rules) \ Range(rules')) /\ standing'[t] \subseteq Range(rules')
      BY <2>1, Watching DEF Watched
    <3> QED
      BY <1>0, <2>1, <3>1
  <2>3. /\ <<>> \in Seq(Rules) /\ IsInjective(<<>>) /\ Len(<<>>) = 0 /\ Range(<<>>) = {}
    BY DEF IsInjective, Range
  <2>4. IsFiniteSet({})
    BY FS_EmptySet
  <2>5. /\ th'[t].op = "evaluate" /\ th'[t].pc = "evaluate" /\ th'[t].pos = 1
        /\ th'[t].result = <<>>
    BY <1>2, <1>4
  <2>6. /\ popped'[t] \cap Range(rules') = {} /\ IsFiniteSet(popped'[t])
        /\ Len(<<>>) = 1 - 1
        /\ \A i \in 1 .. Len(rules') : rules'[i] \notin Range(<<>>)
        /\ Range(<<>>) \subseteq Range(rules') \cup popped'[t]
    BY <2>2, <2>3, <2>4
  <2> QED
    BY <2>2, <2>3, <2>5, <2>6 DEF RuleInv
<1> QED
  BY <1>0, <1>4, <1>5, RulesOfOthers DEF Inv, RulesInv

LEMMA NextRuleStep ==
    ASSUME Inv, Observe, does' = does, NEW t \in Threads, NextRule(t)
    PROVE  Inv'
<1>0. /\ th[t] \in Call /\ th[t].pc = "evaluate" /\ th[t].op = "evaluate" /\ th[t].list = 0
      /\ CallInv(t) /\ RuleInv(t) /\ UNCHANGED <<registry, rules, entries>>
      /\ rules \in Seq(Rules) /\ IsInjective(rules) /\ Len(rules) \in Nat
  <2>1. th[t].pc = "evaluate" /\ UNCHANGED <<registry, rules, entries>>
    BY DEF NextRule, At
  <2>2. th[t] \in Call /\ CallInv(t) /\ RuleInv(t) /\ ListInv(t) /\ rules \in Seq(Rules) /\ IsInjective(rules)
    BY DEF Inv, CallsInv, RulesInv, ListsInv
  <2>3. th[t].op = "evaluate" /\ th[t].list = 0
    BY <2>1, <2>2 DEF CallInv, ListInv, HasList
  <2> QED
    BY <2>1, <2>2, <2>3
<1>1. /\ th[t].result \in Seq(Rules) /\ IsInjective(th[t].result)
      /\ th[t].pos \in Nat \ {0} /\ Len(th[t].result) = th[t].pos - 1
      /\ IsFiniteSet(popped[t]) /\ popped[t] \cap Range(rules) = {}
      /\ Range(th[t].result) \subseteq Range(rules) \cup popped[t]
      /\ \A i \in 1 .. Len(rules) : i >= th[t].pos => rules[i] \notin Range(th[t].result)
  BY <1>0 DEF RuleInv
<1>2. ASSUME NEW c, CallOK(t, c), th' = [th EXCEPT ![t] = c], c.op = "evaluate", c.list = 0,
             c.pc \in {"evaluate", "evaluated"}
      PROVE  /\ CallsInv' /\ ListsInv' /\ SearchesInv' /\ LogInv' /\ HistoryInv'
             /\ th'[t] = c /\ \A u \in Threads \ {t} : RuleInv(u)'
             /\ popped'[t] = popped[t] /\ standing'[t] \subseteq standing[t]
             /\ standing'[t] \subseteq Range(rules)
  <2>1. /\ CallsInv' /\ ListsInv' /\ SearchesInv' /\ LogInv' /\ HistoryInv'
        /\ Moves(t, c) /\ th'[t] = c
    BY <1>0, <1>2, RuleStep
  <2>2. Watched(t)
    BY Watching
  <2>3. popped'[t] = popped[t] \cup (Range(rules) \ Range(rules')) /\ standing'[t] \subseteq standing[t]
        /\ standing'[t] \subseteq Range(rules')
    BY <1>0, <1>2, <2>1, <2>2 DEF Watched
  <2> QED
    BY <1>0, <2>1, <2>3, RulesOfOthers
<1>3. CASE /\ th[t].pos <= Len(rules)
           /\ th' = [th EXCEPT ![t].pos = @ + 1, ![t].result = Append(@, rules[th[t].pos])]
  <2> DEFINE rule == rules[th[t].pos]
             applied == Append(th[t].result, rule)
             c == [th[t] EXCEPT !.pos = @ + 1, !.result = applied]
  <2>1. th[t].pos \in 1 .. Len(rules) /\ rule \in Rules /\ rule \in Range(rules)
    BY <1>0, <1>1, <1>3 DEF Range
  <2>2. rule \notin Range(th[t].result)
    BY <1>1, <2>1
  <2>3. /\ applied \in Seq(Rules) /\ IsInjective(applied)
        /\ Len(applied) = Len(th[t].result) + 1
        /\ Range(applied) = Range(th[t].result) \cup {rule}
    BY <1>1, <2>1, <2>2, DistinctAppend
  <2>4. th' = [th EXCEPT ![t] = c]
    BY <1>0, <1>3 DEF Inv, CallsInv
  <2> HIDE DEF applied, rule
  <2>5. applied \in Seq(Value) /\ th[t].pos + 1 \in Nat
    BY <1>1, <2>3 DEF Value
  <2>6. c \in Call
    BY <1>0, <2>5 DEF Call
  <2>7. /\ c.op = "evaluate" /\ c.pc = "evaluate" /\ c.list = 0 /\ c.pos = th[t].pos + 1
        /\ c.result = applied
    BY <1>0 DEF Call
  <2> HIDE DEF c
  <2>8. CallOK(t, c)
    BY <1>0, <2>6, <2>7 DEF CallOK, CallInv, TagPCs
  <2>9. /\ CallsInv' /\ ListsInv' /\ SearchesInv' /\ LogInv' /\ HistoryInv'
        /\ th'[t] = c /\ \A u \in Threads \ {t} : RuleInv(u)'
        /\ popped'[t] = popped[t] /\ standing'[t] \subseteq Range(rules)
    BY <1>2, <2>4, <2>7, <2>8
  <2>10. ASSUME NEW i \in 1 .. Len(rules), i >= th[t].pos + 1 PROVE rules[i] \notin Range(applied)
    <3>1. i >= th[t].pos /\ i # th[t].pos
      BY <1>1, <2>10
    <3>2. rules[i] # rule
      BY <1>0, <2>1, <3>1 DEF IsInjective, rule
    <3> QED
      BY <1>1, <2>3, <3>1, <3>2
  <2>11. RuleInv(t)'
    <3>1. th[t].pos + 1 \in Nat \ {0} /\ Len(applied) = (th[t].pos + 1) - 1
      BY <1>1, <2>3
    <3>2. Range(applied) \subseteq Range(rules) \cup popped[t]
      BY <1>1, <2>1, <2>3
    <3>3. /\ th'[t].op = "evaluate" /\ th'[t].pc = "evaluate" /\ th'[t].pos = th[t].pos + 1
          /\ th'[t].result = applied /\ rules' = rules
      BY <1>0, <2>7, <2>9
    <3>4. \A i \in 1 .. Len(rules) : i >= th[t].pos + 1 => rules[i] \notin Range(applied)
      BY <2>10
    <3> QED
      BY <1>1, <2>3, <2>9, <3>1, <3>2, <3>3, <3>4 DEF RuleInv
  <2> QED
    BY <1>0, <2>9, <2>11 DEF Inv, RulesInv
<1>4. CASE ~(th[t].pos <= Len(rules)) /\ GoTo(t, "evaluated")
  <2> DEFINE c == [th[t] EXCEPT !.pc = "evaluated"]
  <2>1. c \in Call
    BY <1>0 DEF Call, PCs
  <2>2. /\ c.op = "evaluate" /\ c.pc = "evaluated" /\ c.list = 0 /\ c.pos = th[t].pos
        /\ c.result = th[t].result /\ th' = [th EXCEPT ![t] = c]
    BY <1>0, <1>4 DEF Call, GoTo
  <2> HIDE DEF c
  <2>3. CallOK(t, c)
    BY <1>0, <2>1, <2>2 DEF CallOK, CallInv, TagPCs
  <2>4. /\ CallsInv' /\ ListsInv' /\ SearchesInv' /\ LogInv' /\ HistoryInv'
        /\ th'[t] = c /\ \A u \in Threads \ {t} : RuleInv(u)'
        /\ popped'[t] = popped[t] /\ standing'[t] \subseteq Range(rules)
    BY <1>2, <2>2, <2>3
  <2> DEFINE R == Range(th[t].result)
             Q == Range(rules)
  <2>5. /\ IsFiniteSet(Q) /\ Cardinality(Q) = Len(rules)
        /\ IsFiniteSet(R) /\ Cardinality(R) = th[t].pos - 1
    BY <1>0, <1>1, DistinctCount
  <2>6. Cardinality(Q) <= Cardinality(R)
    BY <1>0, <1>1, <1>4, <2>5
  <2>7. R \ Q \subseteq popped[t]
    BY <1>1
  <2>8. /\ IsFiniteSet(R \ Q) /\ IsFiniteSet(Q \ R)
    BY <2>5, FS_Difference
  <2>9. standing'[t] \ R \subseteq Q \ R
    BY <2>4
  <2>10. /\ IsFiniteSet(standing'[t] \ R)
         /\ Cardinality(standing'[t] \ R) <= Cardinality(Q \ R)
         /\ Cardinality(Q \ R) <= Cardinality(R \ Q)
         /\ Cardinality(R \ Q) <= Cardinality(popped[t])
    BY <1>1, <2>5, <2>6, <2>7, <2>8, <2>9, FS_Subset, OwnElements
  <2>11. Cardinality(standing'[t] \ R) <= Cardinality(popped[t])
    <3>1. /\ Cardinality(standing'[t] \ R) \in Nat /\ Cardinality(Q \ R) \in Nat
          /\ Cardinality(R \ Q) \in Nat /\ Cardinality(popped[t]) \in Nat
      BY <1>1, <2>8, <2>10, FS_CardinalityType
    <3> QED
      BY <2>10, <3>1
  <2>12. RuleInv(t)'
    BY <1>0, <1>1, <2>2, <2>4, <2>11 DEF RuleInv
  <2> QED
    BY <1>0, <2>4, <2>12 DEF Inv, RulesInv
<1> QED
  BY <1>3, <1>4 DEF NextRule

LEMMA ReturnStep ==
    ASSUME Inv, Observe, does' = does, NEW t \in Threads, Return(t)
    PROVE  Inv'
BY FinishStep DEF Return, At

-----------------------------------------------------------------------------
(* Steps of the audit log.                                                  *)
LEMMA LogStep ==
    ASSUME Inv, Observe, does' = does, UNCHANGED <<registry, rules>>,
           NEW t \in Threads, NEW c, CallOK(t, c), Moves(t, c), c.list = 0,
           c.op \notin {"add_tag", "remove_tag", "find_by_tag", "evaluate"},
           \A u \in Threads \ {t} : th'[u].list = th[u].list,
           LogInv'
    PROVE  Inv'
<1>1. CallsInv'
  BY MovesKeepCalls DEF Inv
<1>2. ListsInv' /\ SearchesInv'
  BY TagsUndisturbed
<1>3. RulesInv'
  BY RulesUndisturbed
<1>4. HistoryInv'
  BY HistoryKept DEF Inv, RulesInv
<1> QED
  BY <1>1, <1>2, <1>3, <1>4 DEF Inv

LEMMA Recorder ==
    ASSUME Inv, NEW t \in Threads, th[t].pc \in RecordPCs
    PROVE  /\ th[t] \in Call /\ th[t].list = 0 /\ th[t].op \in does[t] \cup {"none"}
           /\ th[t].op \notin {"add_tag", "remove_tag", "find_by_tag", "evaluate", "none"}
<1>1. th[t] \in Call /\ CallInv(t) /\ ListInv(t)
  BY DEF Inv, CallsInv, ListsInv
<1> QED
  BY <1>1 DEF CallInv, ListInv, RecordPCs, TagPCs, HasList

LEMMA StillRecording ==
    ASSUME Inv, NEW t \in Threads, th[t].pc \in RecordPCs, NEW pc \in RecordPCs, NEW pos \in Nat
    PROVE  LET c == [th[t] EXCEPT !.pc = pc, !.pos = pos] IN
           /\ CallOK(t, c) /\ c.list = 0 /\ c.pc = pc /\ c.pos = pos
           /\ c.op \notin {"add_tag", "remove_tag", "find_by_tag", "evaluate"}
<1> DEFINE c == [th[t] EXCEPT !.pc = pc, !.pos = pos]
<1>1. c \in Call
  BY Recorder, ZenonT(60) DEF Call, PCs
<1>2. c.op = th[t].op /\ c.list = 0 /\ c.pc = pc /\ c.pos = pos
  BY Recorder DEF Call
<1> HIDE DEF c
<1>3. CallOK(t, c) /\ c.op \notin {"add_tag", "remove_tag", "find_by_tag", "evaluate"}
  BY <1>1, <1>2, Recorder DEF CallOK, RecordPCs, TagPCs
<1> QED
  BY <1>2, <1>3 DEF c

LEMMA Recorded ==
    ASSUME Inv, NEW t \in Threads, th[t].pc \in RecordPCs
    PROVE  /\ CallOK(t, AfterRecord(t)) /\ AfterRecord(t).list = 0
           /\ AfterRecord(t).op \notin {"add_tag", "remove_tag", "find_by_tag", "evaluate"}
           /\ AfterRecord(t).pc \notin RecordPCs
<1>1. CASE th[t].op = "add_rule"
  <2> DEFINE c == [th[t] EXCEPT !.pc = "add_rule"]
  <2>1. c \in Call /\ c.op = "add_rule" /\ c.list = 0 /\ c.pc = "add_rule"
    BY <1>1, Recorder DEF Call, PCs
  <2>2. AfterRecord(t) = c
    BY <1>1 DEF AfterRecord
  <2> HIDE DEF c
  <2> QED
    BY <1>1, <2>1, <2>2, Recorder DEF CallOK, RecordPCs, TagPCs
<1>2. CASE th[t].op # "add_rule"
  <2>1. AfterRecord(t) = Idle /\ Idle.list = 0 /\ Idle.op = "none" /\ Idle.pc = "idle"
    BY <1>2 DEF AfterRecord, Idle
  <2> QED
    BY <2>1, IdleOK DEF RecordPCs
<1> QED
  BY <1>1, <1>2

LEMMA RecordingCount ==
    /\ IsFiniteSet(Recording) /\ Cardinality(Recording) \in Nat
    /\ IsFiniteSet(Recording') /\ Cardinality(Recording') \in Nat
BY ThreadsAssumption, FS_Subset, FS_CardinalityType DEF Recording

LEMMA LogSteps ==
    ASSUME Inv, Observe, does' = does, NEW t \in Threads,
           HoldLog(t) \/ Enter(t) \/ Measure(t) \/ Slice(t) \/ Trim(t)
    PROVE  Inv'
<1>0. /\ th[t].pc \in RecordPCs /\ UNCHANGED <<registry, rules>>
  BY DEF HoldLog, Enter, Measure, Slice, Trim, At, RecordPCs
<1>1. /\ th[t] \in Call /\ th[t].pos \in Nat /\ entries \in Nat /\ MaxEntries \in Nat
      /\ entries <= MaxEntries + Cardinality(Recording)
      /\ \A u \in Threads : /\ th[u].pc = "enter" => th[u].pos \in {0, 1}
                            /\ th[u].pc = "trim" => th[u].pos <= MaxEntries
  BY <1>0, Recorder, EntriesAssumption DEF Call, Inv, LogInv, At
<1>2. ASSUME NEW c, CallOK(t, c), c.list = 0,
             c.op \notin {"add_tag", "remove_tag", "find_by_tag", "evaluate"},
             th' = [th EXCEPT ![t] = c],
             c.pc = "enter" => c.pos \in {0, 1}, c.pc = "trim" => c.pos <= MaxEntries,
             entries' \in Nat, entries' <= MaxEntries + Cardinality(Recording')
      PROVE  Inv'
  <2>1. Moves(t, c) /\ th'[t] = c /\ \A u \in Threads \ {t} : th'[u] = th[u]
    BY <1>2, NewCall, NewCallMoves DEF Inv, CallOK
  <2>2. LogInv'
    BY <1>1, <1>2, <2>1 DEF LogInv, At
  <2> QED
    BY <1>0, <1>2, <2>1, <2>2, LogStep
<1>3. ASSUME NEW pc \in RecordPCs, NEW pos \in Nat,
             pc = "enter" => pos \in {0, 1}, pc = "trim" => pos <= MaxEntries,
             th' = [th EXCEPT ![t] = [th[t] EXCEPT !.pc = pc, !.pos = pos]],
             \/ entries' = entries /\ (t \in Recording => pc \in {"measure", "slice", "trim"})
             \/ /\ entries' = entries + th[t].pos /\ th[t].pc = "enter" /\ pc = "measure"
      PROVE  Inv'
  <2> DEFINE c == [th[t] EXCEPT !.pc = pc, !.pos = pos]
  <2>1. /\ CallOK(t, c) /\ c.list = 0 /\ c.pc = pc /\ c.pos = pos
        /\ c.op \notin {"add_tag", "remove_tag", "find_by_tag", "evaluate"}
    BY <1>0, StillRecording
  <2>2. th' = [th EXCEPT ![t] = c]
    BY <1>3
  <2> HIDE DEF c
  <2>3. th'[t] = c /\ \A u \in Threads \ {t} : th'[u] = th[u]
    BY <2>1, <2>2, NewCall DEF Inv, CallOK
  <2>4. entries' \in Nat /\ entries' <= MaxEntries + Cardinality(Recording')
    <3>1. CASE entries' = entries /\ (t \in Recording => pc \in {"measure", "slice", "trim"})
      <4>1. Recording \subseteq Recording'
        BY <2>1, <2>3, <3>1 DEF Recording
      <4>2. Cardinality(Recording) <= Cardinality(Recording')
        BY <4>1, RecordingCount, FS_Subset
      <4> QED
        BY <1>1, <3>1, <4>2, RecordingCount
    <3>2. CASE entries' = entries + th[t].pos /\ th[t].pc = "enter" /\ pc = "measure"
      <4>1. Recording' = Recording \cup {t} /\ t \notin Recording
        BY <2>1, <2>3, <3>2 DEF Recording
      <4>2. Cardinality(Recording') = Cardinality(Recording) + 1
        BY <4>1, RecordingCount, FS_AddElement
      <4>3. th[t].pos \in {0, 1}
        BY <1>1, <3>2
      <4> QED
        BY <1>1, <3>2, <4>2, <4>3, RecordingCount
    <3> QED
      BY <1>3, <3>1, <3>2
  <2> QED
    BY <1>2, <1>3, <2>1, <2>2, <2>4
<1>4. CASE HoldLog(t)
  <2>1. /\ th[t].pc = "record" /\ entries' = entries
        /\ th' = [th EXCEPT ![t] = [th[t] EXCEPT !.pc = "enter", !.pos = 1]]
    BY <1>4 DEF HoldLog, At
  <2>2. t \notin Recording
    BY <2>1 DEF Recording
  <2> QED
    BY <1>3, <2>1, <2>2 DEF RecordPCs
<1>5. CASE Enter(t)
  <2>1. /\ th[t].pc = "enter" /\ entries' = entries + th[t].pos
        /\ th' = [th EXCEPT ![t] = [th[t] EXCEPT !.pc = "measure"]]
    BY <1>5 DEF Enter, At, GoTo
  <2>2. [th[t] EXCEPT !.pc = "measure"] = [th[t] EXCEPT !.pc = "measure", !.pos = th[t].pos]
    BY <1>1 DEF Call
  <2>3. th' = [th EXCEPT ![t] = [th[t] EXCEPT !.pc = "measure", !.pos = th[t].pos]]
    BY <2>1, <2>2
  <2> QED
    BY <1>1, <1>3, <2>1, <2>3 DEF RecordPCs
<1>6. CASE Measure(t)
  <2>1. th[t].pc = "measure" /\ entries' = entries
    BY <1>6 DEF Measure, At
  <2>2. CASE TooLong(entries)
    <3>1. th' = [th EXCEPT ![t] = [th[t] EXCEPT !.pc = "slice"]]
      BY <1>6, <2>2 DEF Measure
    <3>2. [th[t] EXCEPT !.pc = "slice"] = [th[t] EXCEPT !.pc = "slice", !.pos = th[t].pos]
      BY <1>1 DEF Call
    <3>3. th' = [th EXCEPT ![t] = [th[t] EXCEPT !.pc = "slice", !.pos = th[t].pos]]
      BY <3>1, <3>2
    <3> QED
      BY <1>1, <1>3, <2>1, <3>3 DEF RecordPCs
  <2>3. CASE ~TooLong(entries)
    <3>1. th' = [th EXCEPT ![t] = AfterRecord(t)]
      BY <1>6, <2>3 DEF Measure
    <3>2. entries' \in Nat /\ entries' <= MaxEntries + Cardinality(Recording')
      BY <1>1, <2>1, <2>3, RecordingCount DEF TooLong
    <3> QED
      BY <1>0, <1>2, <3>1, <3>2, Recorded DEF RecordPCs
  <2> QED
    BY <2>2, <2>3
<1>7. CASE Slice(t)
  <2> DEFINE pos == IF entries > MaxEntries THEN MaxEntries ELSE entries
  <2>1. /\ th[t].pc = "slice" /\ entries' = entries
        /\ th' = [th EXCEPT ![t] = [th[t] EXCEPT !.pc = "trim", !.pos = pos]]
    BY <1>7 DEF Slice, At
  <2>2. pos \in Nat /\ pos <= MaxEntries
    BY <1>1
  <2> HIDE DEF pos
  <2> QED
    BY <1>3, <2>1, <2>2 DEF RecordPCs
<1>8. CASE Trim(t)
  <2> DEFINE c == AfterRecord(t)
  <2>1. /\ th[t].pc = "trim" /\ entries' = th[t].pos
        /\ th' = [u \in Threads |->
                    CASE u = t -> AfterRecord(t)
                      [] u # t /\ At(u, "enter") -> [th[u] EXCEPT !.pos = 0]
                      [] u # t /\ ~At(u, "enter") -> th[u]]
    BY <1>8 DEF Trim, At
  <2>2. /\ CallOK(t, c) /\ c.list = 0 /\ c.pc \notin RecordPCs
        /\ c.op \notin {"add_tag", "remove_tag", "find_by_tag", "evaluate"}
    BY <1>0, Recorded
  <2>3. th'[t] = c
    BY <2>1
  <2> HIDE DEF c
  <2>4. ASSUME NEW u \in Threads \ {t}
        PROVE  /\ th'[u] \in Call
               /\ th'[u].op = th[u].op /\ th'[u].pc = th[u].pc /\ th'[u].key = th[u].key
               /\ th'[u].sensor = th[u].sensor /\ th'[u].result = th[u].result
               /\ th'[u].visited = th[u].visited /\ th'[u].list = th[u].list
               /\ th[u].pc # "enter" => th'[u].pos = th[u].pos
               /\ th[u].pc = "enter" => th'[u].pos = 0
    <3>1. th[u] \in Call
      BY DEF Inv, CallsInv
    <3>2. CASE th[u].pc = "enter"
      <4>1. th'[u] = [th[u] EXCEPT !.pos = 0]
        BY <2>1, <3>2 DEF At
      <4> QED
        BY <3>1, <3>2, <4>1 DEF Call
    <3>3. CASE th[u].pc # "enter"
      <4>1. th'[u] = th[u]
        BY <2>1, <3>3 DEF At
      <4> QED
        BY <3>1, <3>3, <4>1
    <3> QED
      BY <3>2, <3>3
  <2>5. th' \in [Threads -> Call]
    <3>1. th' = [u \in Threads |-> th'[u]]
      BY <2>1
    <3>2. \A u \in Threads : th'[u] \in Call
      BY <2>2, <2>3, <2>4 DEF CallOK
    <3> QED
      BY <3>1, <3>2
  <2>6. Moves(t, c) /\ \A u \in Threads \ {t} : th'[u].list = th[u].list
    BY <2>3, <2>4, <2>5 DEF Moves
  <2>7. LogInv'
    <3>1. th[t].pos \in Nat /\ th[t].pos <= MaxEntries
      BY <1>1, <2>1
    <3>2. entries' \in Nat /\ entries' <= MaxEntries + Cardinality(Recording')
      BY <1>1, <2>1, <3>1, RecordingCount
    <3>3. ASSUME NEW u \in Threads
          PROVE  /\ th'[u].pc = "enter" => th'[u].pos \in {0, 1}
                 /\ th'[u].pc = "trim" => th'[u].pos <= MaxEntries
      BY <1>1, <2>2, <2>3, <2>4 DEF RecordPCs
    <3> QED
      BY <3>2, <3>3 DEF LogInv, At
  <2> QED
    BY <1>0, <2>2, <2>6, <2>7, LogStep
<1> QED
  BY <1>4, <1>5, <1>6, <1>7, <1>8

-----------------------------------------------------------------------------
LEMMA InvInit == Init => Inv
<1> SUFFICES ASSUME Init PROVE Inv
  OBVIOUS
<1>1. Idle \in Call /\ \A t \in Threads : th[t] = Idle
  BY IdleCall DEF Init
<1>2. /\ Idle.op = "none" /\ Idle.pc = "idle" /\ Idle.list = 0
  BY DEF Idle
<1>3. CallsInv
  BY <1>1, <1>2, AssignmentsAssumption DEF Init, CallsInv, CallInv, TagPCs
<1>4. ListsInv
  BY <1>1, <1>2, SensorsAssumption, FS_EmptySet DEF Init, ListsInv, ListInv, HasList, TagPCs
<1>5. SearchesInv
  BY <1>1, <1>2 DEF SearchesInv, SearchInv
<1>6. RulesInv
  BY <1>1, <1>2 DEF Init, RulesInv, RuleInv, IsInjective
<1>7. LogInv
  BY <1>1, <1>2, RecordingCount, EntriesAssumption DEF Init, LogInv, At
<1>8. HistoryInv
  BY DEF Init, HistoryInv
<1> QED
  BY <1>3, <1>4, <1>5, <1>6, <1>7, <1>8 DEF Inv

LEMMA RestartStep == Inv /\ Restart /\ ForgetHistory /\ UNCHANGED does => Inv'
<1> SUFFICES ASSUME Inv, Restart, ForgetHistory, UNCHANGED does PROVE Inv'
  OBVIOUS
<1>1. Idle \in Call /\ \A t \in Threads : th'[t] = Idle
  BY IdleCall DEF Restart
<1>2. /\ Idle.op = "none" /\ Idle.pc = "idle" /\ Idle.list = 0
  BY DEF Idle
<1>3. CallsInv'
  BY <1>1, <1>2 DEF Inv, Restart, CallsInv, CallInv, TagPCs
<1>4. ListsInv'
  BY <1>1, <1>2, SensorsAssumption, FS_EmptySet DEF Restart, ListsInv, ListInv, HasList, TagPCs
<1>5. SearchesInv'
  BY <1>1, <1>2 DEF SearchesInv, SearchInv
<1>6. RulesInv'
  BY <1>1, <1>2 DEF Restart, ForgetHistory, RulesInv, RuleInv, IsInjective
<1>7. LogInv'
  BY <1>1, <1>2, RecordingCount, EntriesAssumption DEF Restart, LogInv, At
<1>8. HistoryInv'
  BY DEF ForgetHistory, HistoryInv
<1> QED
  BY <1>3, <1>4, <1>5, <1>6, <1>7, <1>8 DEF Inv

LEMMA InvNext == Inv /\ [Next]_vars => Inv'
<1> SUFFICES ASSUME Inv, [Next]_vars PROVE Inv'
  OBVIOUS
<1>1. ASSUME NEW t \in Threads, Step(t), Observe, does' = does PROVE Inv'
  <2>1. ASSUME NEW s \in Sensors, NEW k \in Keys, AddTag(t, s, k) \/ RemoveTag(t, s, k) PROVE Inv'
    BY <1>1, <2>1, AddTagStep, RemoveTagStep
  <2>2. CASE Create(t) \/ FindExisting(t) \/ AppendTag(t) \/ Filter(t) \/ Replace(t)
    BY <1>1, <2>2, CreateStep, FindExistingStep, AppendTagStep, FilterStep, ReplaceStep
  <2>3. CASE LookUp(t, "find", "look") \/ LookUp(t, "append", "append_to")
    BY <1>1, <2>3, LookUpStep
  <2>4. ASSUME NEW k \in Keys, Search(t, k) PROVE Inv'
    BY <1>1, <2>4, SearchStep
  <2>5. CASE NextSensor(t) \/ NextTag(t) \/ Return(t)
    BY <1>1, <2>5, NextSensorStep, NextTagStep, ReturnStep
  <2>6. CASE AddRule(t) \/ Record(t)
    BY <1>1, <2>6, AddRuleStep
  <2>7. CASE AppendRule(t) \/ Pop(t)
    BY <1>1, <2>7, AppendRuleStep, PopStep
  <2>8. ASSUME NEW idx \in 1 .. Len(rules), DeleteRule(t, idx) PROVE Inv'
    BY <1>1, <2>8, DeleteRuleStep
  <2>9. CASE Evaluate(t) \/ NextRule(t)
    BY <1>1, <2>9, EvaluateStep, NextRuleStep
  <2>10. CASE HoldLog(t) \/ Enter(t) \/ Measure(t) \/ Slice(t) \/ Trim(t)
    BY <1>1, <2>10, LogSteps
  <2> QED
    BY <1>1, <2>1, <2>2, <2>3, <2>4, <2>5, <2>6, <2>7, <2>8, <2>9, <2>10 DEF Step
<1>2. CASE UNCHANGED vars
  <2>1. /\ tags' = tags /\ lists' = lists /\ rules' = rules /\ entries' = entries
        /\ does' = does /\ th' = th /\ standing' = standing /\ popped' = popped
    BY <1>2 DEF vars, registry, history
  <2>2. CallsInv' /\ LogInv' /\ HistoryInv'
    BY <2>1 DEF Inv, CallsInv, CallInv, LogInv, Recording, At, HistoryInv
  <2>3. ListsInv'
    BY <2>1 DEF Inv, ListsInv, ListInv
  <2>4. SearchesInv'
    BY <2>1 DEF Inv, SearchesInv, SearchInv, Ahead, Found
  <2>5. RulesInv'
    BY <2>1 DEF Inv, RulesInv, RuleInv
  <2> QED
    BY <2>2, <2>3, <2>4, <2>5 DEF Inv
<1> QED
  BY <1>1, <1>2, RestartStep DEF Next

LEMMA InvHolds == Spec => []Inv
BY InvInit, InvNext, PTL DEF Spec

-----------------------------------------------------------------------------
(* The tags, rules and calls have their types, a sensor outside the         *)
(* dictionary has no list, and the audit log exceeds its limit by at most   *)
(* one entry for each thread that has yet to look at its length.            *)
THEOREM TypeCorrect == Spec => []TypeOK
<1>1. Inv => TypeOK
  <2> SUFFICES ASSUME Inv PROVE TypeOK
    OBVIOUS
  <2>1. /\ tags \subseteq Sensors
        /\ \A s \in Sensors \ tags : lists[s] = <<>>
    BY DEF Inv, ListsInv
  <2>2. ASSUME NEW l \in Sensors \cup Replaced PROVE Range(lists[l]) \subseteq Keys
    BY DEF Inv, ListsInv, Range
  <2>3. Range(rules) \subseteq Rules
    BY DEF Inv, RulesInv, Range
  <2>4. entries \in 0 .. (MaxEntries + Cardinality(Recording))
    BY RecordingCount, EntriesAssumption DEF Inv, LogInv
  <2>5. \A t \in Threads : th[t].op \in does[t] \cup {"none"}
    BY DEF Inv, CallsInv, CallInv
  <2> QED
    BY <2>1, <2>2, <2>3, <2>4, <2>5 DEF TypeOK
<1> QED
  BY <1>1, InvHolds, PTL

(* A search by tag that answers, and a rollout that looks for its group,    *)
(* found every sensor that had the tag all the time, whatever was added,    *)
(* removed and replaced under it, by any number of threads.                 *)
THEOREM SearchesFindAll == Spec => []SearchesComplete
<1>1. Inv => SearchesComplete
  <2> SUFFICES ASSUME Inv, NEW t \in Threads, th[t].pc = "searched"
               PROVE  standing[t] \subseteq Found(t)
    BY DEF SearchesComplete, At
  <2>1. CallInv(t) /\ SearchInv(t)
    BY DEF Inv, CallsInv, SearchesInv
  <2> QED
    BY <2>1 DEF CallInv, SearchInv
<1> QED
  BY <1>1, InvHolds, PTL

(* An evaluation applies no rule twice and misses, of the rules that were   *)
(* there all the time, at most as many as were removed under it.            *)
THEOREM EvaluationsApplyOnce == Spec => []RulesAppliedOnce
<1>1. Inv => RulesAppliedOnce
  <2> SUFFICES ASSUME Inv, NEW t \in Threads, th[t].op = "evaluate"
               PROVE  /\ IsInjective(th[t].result)
                      /\ th[t].pc = "evaluated" =>
                           Cardinality(standing[t] \ Range(th[t].result)) <= Cardinality(popped[t])
    BY DEF RulesAppliedOnce, At
  <2>1. RuleInv(t)
    BY DEF Inv, RulesInv
  <2> QED
    BY <2>1 DEF RuleInv
<1> QED
  BY <1>1, InvHolds, PTL

=============================================================================
