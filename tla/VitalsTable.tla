---------------------------- MODULE VitalsTable ----------------------------
(* What the extension table of a vitals event promises its owner: for each *)
(* type of data a list of pairs that grows up to a limit, each pair cut to *)
(* the length a field has room for, and that nothing else ever touches.    *)
EXTENDS Naturals, Sequences

CONSTANTS
  DataTypes,  \* vitals_ext_data_type
  Limit,      \* how many pairs of a type are taken
  Room,       \* how many characters of a string are kept
  Strings     \* what may be added

VARIABLE entries

Cut(s) == SubSeq(s, 1, IF Len(s) < Room THEN Len(s) ELSE Room)

Init == entries = [t \in DataTypes |-> <<>>]

Add(t, key, val) ==
  /\ Len(entries[t]) < Limit[t]
  /\ entries' =
       [entries EXCEPT ![t] = Append(@, [key |-> Cut(key), val |-> Cut(val)])]

Next == \E t \in DataTypes, key, val \in Strings : Add(t, key, val)

Spec == Init /\ [][Next]_entries
=============================================================================
