----------------------------- MODULE MCPublish -----------------------------
(***************************************************************************)
(* Values of the constants of Publish for TLC.                             *)
(***************************************************************************)
EXTENDS Publish

(***************************************************************************)
(* Options: each run of the model varies only those its properties turn on.*)
(***************************************************************************)
PlainConfigs == {IdleConfig}

CleanupConfigs == {[IdleConfig EXCEPT !.cleanup = c] : c \in BOOLEAN}

RingConfigs ==
  {[IdleConfig EXCEPT !.bkc = b, !.force = f] : b \in BOOLEAN, f \in BOOLEAN}

SigningConfigs ==
  {[IdleConfig EXCEPT !.signing = s, !.stopSigning = t, !.baseURL = u, !.dropBaseURL = d] :
     s \in BOOLEAN, t \in BOOLEAN, u \in BOOLEAN, d \in BOOLEAN}

OptionConfigs == RingConfigs \cup SigningConfigs

OptionCleanupConfigs == OptionConfigs \cup CleanupConfigs

\* Refreshes no check ever refuses: they have keys, and force the tags.
UnrefusedConfigs ==
  {[IdleConfig EXCEPT !.signing = TRUE, !.force = TRUE, !.bkc = TRUE, !.cleanup = c] :
     c \in BOOLEAN}

UnrefusedKeepingConfigs == {c \in UnrefusedConfigs : ~c.cleanup}

BKCConfigs == {[IdleConfig EXCEPT !.bkc = TRUE]}

BKCCleanupConfigs == {[IdleConfig EXCEPT !.bkc = TRUE, !.cleanup = TRUE]}

(***************************************************************************)
(* Definitions files: none of the rings, or one firmware for each ring.    *)
(***************************************************************************)
NoRingFiles == {NoRings}

OneEach == [Rings -> {{}} \cup {{f} : f \in Firmware}]

(***************************************************************************)
(* Documents left by an earlier firmirror: of one firmware, of either      *)
(* schema, with or without tags and a base URL.                            *)
(***************************************************************************)
Left(schemas, rings, urls) ==
  {[schema |-> s, packages |-> {p},
    tags |-> [ring \in Rings |-> defs[ring] \cap {p.firmware}], absolute |-> u] :
     s \in schemas, p \in Package, defs \in rings, u \in urls}

PlainDocuments == Left(Schema, NoRingFiles, {FALSE})
RingDocuments == Left(Schema, OneEach, {FALSE})
URLDocuments == Left({"current"}, NoRingFiles, BOOLEAN)
OptionDocuments == RingDocuments \cup URLDocuments
=============================================================================
