------------------------------ MODULE MCDocuments ------------------------------
(***************************************************************************)
(* Values of the constants of Documents for TLC: two platforms of one ID   *)
(* and a component that covers both, and packages that provide one or two  *)
(* of them, with a version built twice and two packages of one day.        *)
(***************************************************************************)
EXTENDS Documents

CONSTANTS v1, v2

A == [id |-> "a", guids |-> {1, 2}]
B == [id |-> "a", guids |-> {2, 3}]
C == [id |-> "b", guids |-> {1, 2, 3}]

ThreeKeys == <<A, B, C>>

Fw(version, date, checksum, provides) ==
  [version |-> version, date |-> date, checksum |-> checksum, provides |-> provides]

SomeFirmware ==
  {Fw(v1, 1, 1, {A, B}), Fw(v2, 2, 2, {A, C}), Fw(v1, 2, 3, {B}), Fw(v1, 2, 1, {A})}

\* Promotion order and the order of the tags differ.
TwoRings == <<2, 1>>

Serving(a, b, c) == [k \in {A, B, C} |-> IF k = A THEN a ELSE IF k = B THEN b ELSE c]

SomeDefinitions ==
  {[r \in {1, 2} |-> IF r = 1 THEN s ELSE t] :
     s \in {Serving(v1, v1, v2), Serving(NoVersion, v1, NoVersion)},
     t \in {Serving(v1, v1, v2), Serving(NoVersion, v1, v2), Serving(v2, v1, v2)}}
=============================================================================
