----------------------------- MODULE FieldIndex -----------------------------
(***************************************************************************)
(* How a struct scan finds the field of a column: walkStructFields and     *)
(* buildStructPlan of pg2json/scan.go.                                     *)
(*                                                                         *)
(* A struct type is a tree.  <<>> is the path of the struct itself, and    *)
(* Append(p, i) that of the i-th struct embedded in the one at p; a type   *)
(* is a function from its paths to the names the fields declared there     *)
(* resolve to (after tags, lower-cased; skipped and unexported fields left *)
(* out), in the order of declaration, and the number of structs embedded.  *)
(* A path stands for the offset.                                           *)
(***************************************************************************)
EXTENDS Integers, FiniteSets, SequencesExt

\* A tree of structs: every struct but the outermost is embedded in another.  The
\* structs around one are different ones (the code keeps them in seen).
IsStructType(t) ==
    /\ IsFiniteSet(DOMAIN t) /\ <<>> \in DOMAIN t
    /\ \A p \in DOMAIN t :
        /\ p \in Seq(Nat) /\ Len(p) < Cardinality(DOMAIN t)
        /\ t[p] \in [fields : Seq(STRING), embeds : Nat]
        /\ \A i \in 1..t[p].embeds : Append(p, i) \in DOMAIN t
        /\ p # <<>> => Front(p) \in DOMAIN t /\ Last(p) \in 1..t[Front(p)].embeds

\* Variant for a mutation run: what an embedded struct brings replaces what was
\* there.
MergeLast(out, inner) ==
    [n \in DOMAIN out \cup DOMAIN inner |-> IF n \in DOMAIN inner THEN inner[n] ELSE out[n]]

\* Names already claimed stay.
Merge(out, inner) ==
    [n \in DOMAIN out \cup DOMAIN inner |-> IF n \in DOMAIN out THEN out[n] ELSE inner[n]]

\* The names of the embedded structs, in order, merged into those of the struct.
MergeAll(own, inner) ==
    LET out[i \in 0..Len(inner)] == IF i = 0 THEN own ELSE Merge(out[i - 1], inner[i])
    IN  out[Len(inner)]

\* The index of a struct: a function from names to paths.
walkStructFields(t) ==
    LET walk[base \in DOMAIN t] ==
            MergeAll([n \in ToSet(t[base].fields) |-> base],
                     [i \in 1..t[base].embeds |-> walk[Append(base, i)]])
    IN  walk[<<>>]

\* The plan of a result: for each column the field, or none (skip).
Skip == <<-1>>
buildStructPlan(t, columns) ==
    LET nameIdx == walkStructFields(t)
    IN  [i \in 1..Len(columns) |->
            IF columns[i] \in DOMAIN nameIdx THEN nameIdx[columns[i]] ELSE Skip]

\* A column goes to a field of its name whenever the struct has one, at whatever
\* depth; and the field is never hidden by its own embedded structs: none of
\* the structs that enclose it declares the name.
OuterWins(t, columns) ==
    LET plan == buildStructPlan(t, columns)
    IN  \A i \in 1..Len(columns) :
            IF plan[i] = Skip
            THEN \A p \in DOMAIN t : columns[i] \notin ToSet(t[p].fields)
            ELSE /\ columns[i] \in ToSet(t[plan[i]].fields)
                 /\ \A k \in 0..Len(plan[i]) - 1 :
                        columns[i] \notin ToSet(t[SubSeq(plan[i], 1, k)].fields)
=============================================================================
