-------------------------- MODULE AmazonLogProofs --------------------------
(***************************************************************************)
(* Proofs about AmazonLog, for arrays, limits and ints of any size and for *)
(* any strings: the table is what VitalsTable says it is.                  *)
(***************************************************************************)
EXTENDS AmazonLog, SequenceTheorems, TLAPS

-----------------------------------------------------------------------------
(* Names.                                                                  *)

\* No two priorities have the same name.
LEMMA NamesDiffer ==
  ASSUME NEW p \in Prios
  PROVE  NameToPrio(<<PrioNames[p]>>) = p
<1>1. \A q \in Prios : PrioNames[q] = PrioNames[p] => q = p
  BY DEF PrioNames, Prios
<1> QED
  BY <1>1 DEF NameToPrio

LEMMA CastKeeps ==
  ASSUME NEW n \in Ints, NEW k \in 0 .. 5, Unsigned(n) <= k
  PROVE  n \in 0 .. k
BY TableAssumption DEF Ints, Unsigned

LEMMA NamesRead ==
  ASSUME NEW path, NEW p \in Prios, NameToPrio(path) = p
  PROVE  PrioNames[p] = path[Len(path)]
<1>1. \E q \in Prios : PrioNames[q] = path[Len(path)]
  BY DEF NameToPrio, Prios
<1> QED
  BY <1>1 DEF NameToPrio

\* The two functions on names undo each other, for an int of any width.
THEOREM NamesAlwaysAgree == Spec => []NamesAgree
<1>1. Init => NamesAgree
  BY DEF Init, NamesAgree
<1>2. NamesAgree /\ [Next]_vars => NamesAgree'
  <2> SUFFICES ASSUME NamesAgree, [Next]_vars
               PROVE  NamesAgree'
    OBVIOUS
  <2>1. CASE UNCHANGED call
    BY <2>1 DEF NamesAgree
  <2>2. ASSUME NEW prio \in Ints, MetricsLogPrioToName(prio)
        PROVE  NamesAgree'
    <3>1. call' = [of |-> "prio", prio |-> prio, path |-> <<PrioToName(prio)>>]
      BY <2>2 DEF MetricsLogPrioToName
    <3>2. Unsigned(prio) <= 5 <=> prio \in Prios
      BY CastKeeps DEF Prios, Unsigned
    <3>3. PrioToName(prio) = PrioNames[IF prio \in Prios THEN prio ELSE Normal]
      BY <3>2, TableAssumption DEF PrioToName, Unsigned, Ints
    <3>4. NameToPrio(<<PrioToName(prio)>>)
            = IF prio \in Prios THEN prio ELSE Normal
      BY <3>3, NamesDiffer DEF Prios, Normal
    <3> QED
      BY <3>1, <3>4 DEF NamesAgree
  <2>3. ASSUME NEW path \in Paths, MetricsPrioNameToMetricsPrio(path)
        PROVE  NamesAgree'
    <3>1. /\ call'.of = "name" /\ call'.path = path
          /\ call'.prio = IF path = Null THEN -1 ELSE NameToPrio(path)
      BY <2>3 DEF MetricsPrioNameToMetricsPrio
    <3>2. NameToPrio(path) \in Prios \cup {-1}
      BY DEF NameToPrio
    <3>3. ASSUME call'.prio # -1
          PROVE  PrioToName(call'.prio) = call'.path[Len(call'.path)]
      <4>1. NameToPrio(path) \in Prios /\ call'.prio = NameToPrio(path)
        BY <3>1, <3>2, <3>3
      <4>2. PrioToName(call'.prio) = PrioNames[NameToPrio(path)]
        BY <4>1 DEF PrioToName, Unsigned, Prios
      <4> QED
        BY <3>1, <4>1, <4>2, NamesRead
    <3> QED
      BY <3>1, <3>3 DEF NamesAgree
  <2> QED
    BY <2>1, <2>2, <2>3 DEF Next, vars, SetData
<1> QED
  BY <1>1, <1>2, PTL DEF Spec

-----------------------------------------------------------------------------
(* The table.                                                              *)

Fields == [Chars -> Letters \cup {NUL, Junk}]

TableType ==
  /\ count \in [DataTypes -> Nat]
  /\ data \in [DataTypes -> [0 .. MaxPairs - 1 -> [key : Fields, val : Fields]]]

\* __vitals_log_ext_set_data never counts, and so never writes, more pairs
\* than a type of data may have or the array has room for.
InTable ==
  \A t \in DataTypes : count[t] <= ExtMax[t] /\ count[t] <= MaxPairs

TableInv == TableType /\ InTable

LEMMA StoredIsField ==
  ASSUME NEW field, NEW s \in Strings
  PROVE  Stored(field, s) \in Fields
BY TableAssumption DEF Stored, Fields, Chars

LEMMA InitTableInv == Init => TableInv
BY TableAssumption
   DEF Init, TableInv, TableType, InTable, Blank, Fields, DataTypes, Chars

\* What a call that is not turned away does, without the casts and checks.
LEMMA SetDataEffect ==
  ASSUME TableInv, NEW ext, NEW key \in Strings \cup {Null},
         NEW val \in Strings \cup {Null}, NEW type \in Ints,
         SetData(ext, key, val, type)
  PROVE  /\ type \in DataTypes /\ key \in Strings /\ val \in Strings
         /\ count[type] < ExtMax[type]
         /\ count[type] \in 0 .. MaxPairs - 1
         /\ count' = [count EXCEPT ![type] = count[type] + 1]
         /\ data' = [data EXCEPT ![type][count[type]] =
                        [key |-> Stored(data[type][count[type]].key, key),
                         val |-> Stored(data[type][count[type]].val, val)]]
<1>1. Unsigned(type) <= 1
  BY TableAssumption DEF SetData, HasRoom, Unsigned, Ints
<1>2. type \in DataTypes
  BY <1>1, CastKeeps DEF DataTypes
<1>3. count[type] \in Nat /\ ExtMax[type] \in 0 .. MaxPairs
  BY <1>2, TableAssumption DEF TableInv, TableType
<1>4. count[type] < ExtMax[type] /\ key # Null /\ val # Null
  BY DEF SetData, HasRoom
<1>5. count[type] \in 0 .. MaxPairs - 1
  BY <1>3, <1>4, TableAssumption
<1> QED
  BY <1>2, <1>4, <1>5 DEF SetData

LEMMA NextTableInv == TableInv /\ [Next]_vars => TableInv'
<1> SUFFICES ASSUME TableInv, [Next]_vars
             PROVE  TableInv'
  OBVIOUS
<1>1. CASE UNCHANGED <<count, data>>
  BY <1>1 DEF TableInv, TableType, InTable
<1>2. ASSUME NEW ext, NEW key \in Strings \cup {Null},
             NEW val \in Strings \cup {Null}, NEW type \in Ints,
             SetData(ext, key, val, type)
      PROVE  TableInv'
  <2>1. /\ type \in DataTypes /\ key \in Strings /\ val \in Strings
        /\ count[type] < ExtMax[type]
        /\ count[type] \in 0 .. MaxPairs - 1
        /\ count' = [count EXCEPT ![type] = count[type] + 1]
        /\ data' = [data EXCEPT ![type][count[type]] =
                       [key |-> Stored(data[type][count[type]].key, key),
                        val |-> Stored(data[type][count[type]].val, val)]]
    BY <1>2, SetDataEffect
  <2>2. ASSUME NEW t \in DataTypes
        PROVE  count'[t] <= ExtMax[t] /\ count'[t] <= MaxPairs
    <3>1. /\ count[t] \in Nat /\ ExtMax[t] \in 0 .. MaxPairs
          /\ count[t] <= ExtMax[t]
      BY TableAssumption DEF TableInv, TableType, InTable
    <3>2. count'[t] = IF t = type THEN count[t] + 1 ELSE count[t]
      BY <2>1 DEF TableInv, TableType
    <3> QED
      BY <2>1, <3>1, <3>2, TableAssumption
  <2>3. TableType'
    BY <2>1, StoredIsField DEF TableInv, TableType
  <2> QED
    BY <2>2, <2>3 DEF TableInv, InTable
<1> QED
  BY <1>1, <1>2 DEF Next, vars, MetricsLogPrioToName,
                    MetricsPrioNameToMetricsPrio

LEMMA TableInvHolds == Spec => []TableInv
BY InitTableInv, NextTableInv, PTL DEF Spec

\* The arrays of an event are never overrun.
THEOREM TableNotOverrun == Spec => []InTable
<1>1. TableInv => InTable
  BY DEF TableInv
<1> QED
  BY <1>1, TableInvHolds, PTL

-----------------------------------------------------------------------------
(* Refinement.                                                             *)

\* A string that is stored reads back as its beginning, up to the room there is.
LEMMA StoredReads ==
  ASSUME NEW field, NEW s \in Strings
  PROVE  StringIn(Stored(field, s)) = Table!Cut(s)
<1> DEFINE f == Stored(field, s)
           m == IF Len(s) < StrLen - 1 THEN Len(s) ELSE StrLen - 1
           Ends(n) == /\ \A j \in 0 .. n - 1 : f[j] # NUL
                      /\ n = StrLen \/ f[n] = NUL
<1>1. s \in Seq(Letters) /\ StrLen \in Nat \ {0} /\ NUL \notin Letters
  BY TableAssumption
<1>2. m \in 0 .. StrLen - 1 /\ m <= Len(s)
  BY <1>1
<1>3. \A j \in 0 .. m - 1 : f[j] = s[j + 1] /\ s[j + 1] # NUL
  BY <1>1, <1>2 DEF Stored, Chars
<1>4. f[m] = NUL
  BY <1>1, <1>2 DEF Stored, Chars
<1>5. m \in 0 .. StrLen /\ Ends(m)
  BY <1>1, <1>2, <1>3, <1>4
<1>6. ASSUME NEW n \in 0 .. StrLen, Ends(n)
      PROVE  n = m
  <2>1. ~(n < m)
    BY <1>1, <1>2, <1>3, <1>6
  <2>2. ~(m < n)
    BY <1>1, <1>2, <1>4, <1>6
  <2> QED
    BY <1>1, <1>2, <2>1, <2>2
<1>7. (CHOOSE n \in 0 .. StrLen : Ends(n)) = m
  BY <1>5, <1>6
<1>8. StringIn(f) = [j \in 1 .. m |-> f[j - 1]]
  BY <1>7 DEF StringIn
<1>9. \A j \in 1 .. m : f[j - 1] = s[j]
  BY <1>1, <1>2, <1>3
<1>10. Table!Cut(s) = SubSeq(s, 1, m)
  BY DEF Table!Cut
<1>11. SubSeq(s, 1, m) = [j \in 1 .. m |-> s[j]]
  <2> HIDE DEF m
  <2> QED
    BY <1>1, <1>2
<1> QED
  BY <1>8, <1>9, <1>10, <1>11

\* The pairs as a reader finds them.
Pair(entry) == [key |-> StringIn(entry.key), val |-> StringIn(entry.val)]

Pairs == [t \in DataTypes |-> [n \in 1 .. count[t] |-> Pair(data[t][n - 1])]]

\* Adding a pair appends to the list of its type and leaves the other alone.
LEMMA SetDataAppends ==
  ASSUME TableInv, NEW ext, NEW key \in Strings \cup {Null},
         NEW val \in Strings \cup {Null}, NEW type \in Ints,
         SetData(ext, key, val, type)
  PROVE  Pairs' = [Pairs EXCEPT ![type] =
                     Append(Pairs[type], [key |-> Table!Cut(key),
                                          val |-> Table!Cut(val)])]
<1>0. /\ type \in DataTypes /\ key \in Strings /\ val \in Strings
      /\ count[type] \in 0 .. MaxPairs - 1
      /\ count' = [count EXCEPT ![type] = count[type] + 1]
      /\ data' = [data EXCEPT ![type][count[type]] =
                     [key |-> Stored(data[type][count[type]].key, key),
                      val |-> Stored(data[type][count[type]].val, val)]]
  <2>1. /\ type \in DataTypes /\ key \in Strings /\ val \in Strings
        /\ count[type] \in 0 .. MaxPairs - 1
    BY SetDataEffect
  <2> QED
    BY <2>1 DEF SetData, HasRoom
<1> DEFINE c == count[type]
           entry == [key |-> Stored(data[type][c].key, key),
                     val |-> Stored(data[type][c].val, val)]
           pair == [key |-> Table!Cut(key), val |-> Table!Cut(val)]
<1>1. /\ type \in DataTypes /\ key \in Strings /\ val \in Strings
      /\ c \in 0 .. MaxPairs - 1
      /\ count' = [count EXCEPT ![type] = c + 1]
      /\ data' = [data EXCEPT ![type][c] = entry]
  BY <1>0
<1>2. ASSUME NEW t \in DataTypes, t # type
      PROVE  Pairs'[t] = Pairs[t]
  <2>1. count'[t] = count[t] /\ data'[t] = data[t]
    BY <1>1, <1>2 DEF TableInv, TableType
  <2> QED
    BY <1>2, <2>1 DEF Pairs
<1>3. Pairs'[type] = Append(Pairs[type], pair)
  <2>1. count'[type] = c + 1 /\ c \in Nat
    BY <1>1, TableAssumption DEF TableInv, TableType
  <2>2. data'[type] = [data[type] EXCEPT ![c] = entry]
    BY <1>1 DEF TableInv, TableType
  <2>3. data[type] \in [0 .. MaxPairs - 1 -> [key : Fields, val : Fields]]
    BY <1>1 DEF TableInv, TableType
  <2>4. data'[type][c] = entry
    BY <1>1, <2>2, <2>3
  <2>5. \A n \in 1 .. c : data'[type][n - 1] = data[type][n - 1]
    BY <1>1, <2>1, <2>2, <2>3, TableAssumption
  <2>6. Pair(entry) = pair
    BY <1>1, StoredReads DEF Pair
  <2>7. Pairs'[type] = [n \in 1 .. c + 1 |-> Pair(data'[type][n - 1])]
    BY <1>1, <2>1 DEF Pairs
  <2>8. Pairs[type] = [n \in 1 .. c |-> Pair(data[type][n - 1])]
    BY <1>1 DEF Pairs
  <2> HIDE DEF c, entry, pair
  <2>9. Len(Pairs[type]) = c
    BY <2>1, <2>8
  <2>10. ASSUME NEW n \in 1 .. c + 1
         PROVE  Pair(data'[type][n - 1])
                  = IF n = c + 1 THEN pair ELSE Pairs[type][n]
    <3>1. CASE n = c + 1
      <4>1. n - 1 = c
        BY <2>1, <3>1
      <4> QED
        BY <2>4, <2>6, <3>1, <4>1
    <3>2. CASE n # c + 1
      <4>1. n \in 1 .. c
        BY <2>1, <3>2
      <4> QED
        BY <2>5, <2>8, <3>2, <4>1
    <3> QED
      BY <3>1, <3>2
  <2>11. Append(Pairs[type], pair)
           = [n \in 1 .. c + 1 |-> IF n = c + 1 THEN pair ELSE Pairs[type][n]]
    BY <2>1, <2>8, <2>9
  <2> QED
    BY <2>7, <2>10, <2>11
<1>4. Pairs' = [t \in DataTypes |-> Pairs'[t]]
  BY DEF Pairs
<1>5. Pairs = [t \in DataTypes |-> Pairs[t]]
  BY DEF Pairs
<1> DEFINE longer == Append(Pairs[type], pair)
<1> HIDE DEF c, entry, longer
<1>6. Pairs' = [t \in DataTypes |-> IF t = type THEN longer ELSE Pairs[t]]
  BY <1>2, <1>3, <1>4 DEF longer
<1>7. [Pairs EXCEPT ![type] = longer]
        = [t \in DataTypes |-> IF t = type THEN longer ELSE Pairs[t]]
  BY <1>5
<1> QED
  BY <1>6, <1>7 DEF longer

\* To its reader the table is VitalsTable's: it starts empty, a call adds a pair
\* that is cut and ended where there is room for one, and nothing else changes.
THEOREM TableImplemented == Spec => ImplementsTable
<1>1. Init => Table!Init
  BY DEF Init, Table!Init
<1>2. TableInv /\ [Next]_vars => [Table!Next]_Pairs
  <2> SUFFICES ASSUME TableInv, [Next]_vars
               PROVE  [Table!Next]_Pairs
    OBVIOUS
  <2>1. CASE UNCHANGED <<count, data>>
    BY <2>1 DEF Pairs, Pair, StringIn
  <2>2. ASSUME NEW ext, NEW key \in Strings \cup {Null},
               NEW val \in Strings \cup {Null}, NEW type \in Ints,
               SetData(ext, key, val, type)
        PROVE  Table!Next
    <3> DEFINE pair == [key |-> Table!Cut(key), val |-> Table!Cut(val)]
    <3>1. /\ type \in DataTypes /\ key \in Strings /\ val \in Strings
          /\ count[type] < ExtMax[type]
      BY <2>2, SetDataEffect, ZenonT(30)
    <3>2. Len(Pairs[type]) < ExtMax[type]
      BY <3>1 DEF Pairs, TableInv, TableType
    <3>3. Pairs' = [Pairs EXCEPT ![type] = Append(Pairs[type], pair)]
      BY <2>2, SetDataAppends
    <3>4. Table!Add(type, key, val)
      BY <3>2, <3>3 DEF Table!Add, Pairs, Pair
    <3> QED
      BY <3>1, <3>4 DEF Table!Next
  <2> QED
    BY <2>1, <2>2 DEF Next, vars, MetricsLogPrioToName,
                      MetricsPrioNameToMetricsPrio
<1> QED
  BY <1>1, <1>2, TableInvHolds, PTL
     DEF Spec, ImplementsTable, Table!Spec, Pairs, Pair
=============================================================================
