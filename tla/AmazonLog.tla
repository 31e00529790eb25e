----------------------------- MODULE AmazonLog -----------------------------
(***************************************************************************)
(* libamazonlog/amazonlog.c: the extension table of a vitals event, which  *)
(* its owner hands to every call, and the names of the priorities.  The    *)
(* table's strings are C strings in arrays of a fixed size, with whatever  *)
(* the owner's memory held in the elements nobody has written.             *)
(***************************************************************************)
EXTENDS Integers, Sequences

CONSTANTS
  StrLen,     \* VITALS_EXT_STR_LEN
  MaxPairs,   \* VITALS_EXT_MAX_PAIRS
  ExtMax,     \* ext_max
  Letters,    \* the characters strings are made of
  NUL,        \* the character that ends one
  Junk,       \* what is in an element that has not been written
  Strings,    \* strings a caller may pass, as sequences of characters
  Null,       \* the null pointer
  IntMax      \* the largest int

DataTypes == {0, 1}  \* VITALS_EXT_DIMENSION, VITALS_EXT_META
Prios     == 0 .. 5  \* METRICS_PRIORITY_HIGH to METRICS_PRIORITY_NONE
Normal    == 1       \* METRICS_PRIORITY_NORMAL

ASSUME TableAssumption ==
  /\ StrLen \in Nat \ {0}
  /\ MaxPairs \in Nat
  /\ ExtMax \in [DataTypes -> 0 .. MaxPairs]
  /\ NUL \notin Letters /\ Junk # NUL
  /\ Strings \subseteq Seq(Letters)
  /\ Null \notin Strings
  /\ IntMax \in Nat /\ IntMax >= 5

Ints == -IntMax - 1 .. IntMax

\* The cast to unsigned int makes a negative number larger than any other.
Unsigned(n) == IF n < 0 THEN n + 2 * IntMax + 2 ELSE n

VARIABLES
  count,    \* vitals_extended_data
  data,
  call      \* which of the two functions on names was called last, its
            \* argument and its result

vars == <<count, data, call>>

-----------------------------------------------------------------------------
(* __vitals_log_ext_set_data.                                              *)

Chars == 0 .. StrLen - 1

\* Mutant: strncpy does not end a string that fills the array.
StoredUnterminated(field, s) ==
  [j \in Chars |-> IF j = StrLen - 1 THEN field[j]
                   ELSE IF j < Len(s) THEN s[j + 1] ELSE NUL]

\* strncpy fills with NUL up to its limit; the last element is set after it.
Stored(field, s) ==
  [j \in Chars |-> IF j < Len(s) /\ j < StrLen - 1 THEN s[j + 1] ELSE NUL]

HasRoom(type) == count[type] < ExtMax[type]

SetData(ext, key, val, type) ==
  /\ ext # Null /\ Unsigned(type) < 2 /\ key # Null /\ val # Null
  /\ HasRoom(type)
  /\ data' = [data EXCEPT ![type][count[type]] =
                [key |-> Stored(@.key, key), val |-> Stored(@.val, val)]]
  /\ count' = [count EXCEPT ![type] = @ + 1]
  /\ UNCHANGED call

-----------------------------------------------------------------------------
(* The names of the priorities.                                            *)

PrioNames ==
  [p \in Prios |-> <<"HI", "NR", "CT", "TI", "DV", "NA">>[p + 1]]

\* Mutant: the priority is compared as it is, and a negative one indexes what
\* lies in front of the table.
PrioToNameSigned(prio) ==
  IF prio > 5 THEN PrioNames[Normal]
  ELSE IF prio < 0 THEN "junk" ELSE PrioNames[prio]

PrioToName(prio) == PrioNames[IF Unsigned(prio) > 5 THEN Normal ELSE prio]

\* A name is a path of components; what stands behind the last slash counts.
NameToPrio(path) ==
  IF \E p \in Prios : PrioNames[p] = path[Len(path)]
  THEN CHOOSE p \in Prios : PrioNames[p] = path[Len(path)]
  ELSE -1

MetricsLogPrioToName(prio) ==
  /\ call' = [of |-> "prio", prio |-> prio, path |-> <<PrioToName(prio)>>]
  /\ UNCHANGED <<count, data>>

MetricsPrioNameToMetricsPrio(path) ==
  /\ call' = [of |-> "name", path |-> path,
              prio |-> IF path = Null THEN -1 ELSE NameToPrio(path)]
  /\ UNCHANGED <<count, data>>

-----------------------------------------------------------------------------

\* The owner of an event zeroes its counts and nothing else.
Blank == [j \in Chars |-> Junk]

Init ==
  /\ count = [t \in DataTypes |-> 0]
  /\ data = [t \in DataTypes |->
               [n \in 0 .. MaxPairs - 1 |-> [key |-> Blank, val |-> Blank]]]
  /\ call = [of |-> "name", prio |-> -1, path |-> Null]

Paths ==
  LET Names == {PrioNames[p] : p \in Prios} \cup {""}
  IN  {<<name>> : name \in Names} \cup {<<"HI", name>> : name \in Names}
        \cup {Null}

Next ==
  \/ \E ext \in {"event", Null}, key, val \in Strings \cup {Null},
        type \in Ints : SetData(ext, key, val, type)
  \/ \E prio \in Ints : MetricsLogPrioToName(prio)
  \/ \E path \in Paths : MetricsPrioNameToMetricsPrio(path)

Spec == Init /\ [][Next]_vars
-----------------------------------------------------------------------------
(* Properties.                                                             *)

\* metrics_log_prio_to_name answers any number with a name of the table that is
\* read back as that number, or as normal if there is no such priority; what
\* metrics_prio_name_to_metrics_prio takes for a priority is printed with the
\* name it was given, less the path in front of it.
NamesAgree ==
  /\ call.of = "prio" =>
       NameToPrio(call.path) = IF call.prio \in Prios THEN call.prio ELSE Normal
  /\ call.of = "name" /\ call.prio # -1 =>
       PrioToName(call.prio) = call.path[Len(call.path)]

\* What a reader of the table finds in an array: the characters in front of the
\* first NUL, or all of the array if there is none.
StringIn(field) ==
  LET n == CHOOSE n \in 0 .. StrLen :
             /\ \A j \in 0 .. n - 1 : field[j] # NUL
             /\ n = StrLen \/ field[n] = NUL
  IN  [j \in 1 .. n |-> field[j - 1]]

Table ==
  INSTANCE VitalsTable WITH
    Limit <- ExtMax,
    Room <- StrLen - 1,
    entries <- [t \in DataTypes |->
                  [n \in 1 .. count[t] |->
                     [key |-> StringIn(data[t][n - 1].key),
                      val |-> StringIn(data[t][n - 1].val)]]]

\* As its reader sees it, the table is a bounded list of pairs per type of data:
\* each call adds one pair, cut to size and ended, or does nothing, and no call
\* changes a pair that is there.
ImplementsTable == Table!Spec
=============================================================================
