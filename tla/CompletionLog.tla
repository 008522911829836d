---------------------------- MODULE CompletionLog ----------------------------
(***************************************************************************)
(* What the native store promises to everyone who shares it, with no lock, *)
(* no segment and no descriptor in sight: directories appear, each one     *)
(* completes once, completions form one append-only log, and every reader  *)
(* has consumed a prefix of that log.  FindexStore implements it.          *)
(***************************************************************************)
EXTENDS Naturals, Sequences

CONSTANTS Ids,        \* directory ids
          Readers,    \* consumers of the completion journal
          Root        \* the directory known from the start

VARIABLES outcome,    \* [known directory -> "pending" | "published" | "failed"]
          log,        \* completed directories, oldest first
          delivered   \* [reader -> what it has read since it last started over]

vars == <<outcome, log, delivered>>

TypeOK ==
    /\ \E known \in SUBSET Ids :
          outcome \in [known -> {"pending", "published", "failed"}]
    /\ log \in Seq(Ids)
    /\ delivered \in [Readers -> Seq(Ids)]

Init ==
    /\ outcome = [d \in {Root} |-> "pending"]
    /\ log = <<>>
    /\ delivered = [r \in Readers |-> <<>>]

\* A pending directory is published with children nobody has seen before, or
\* it fails with none: either way it enters the log, once.
Complete(d, children, result) ==
    /\ d \in DOMAIN outcome
    /\ outcome[d] = "pending"
    /\ children \cap DOMAIN outcome = {}
    /\ result = "failed" => children = {}
    /\ outcome' = [c \in DOMAIN outcome \cup children |->
                     IF c = d THEN result
                     ELSE IF c \in children THEN "pending" ELSE outcome[c]]
    /\ log' = Append(log, d)
    /\ UNCHANGED delivered

\* A reader consumes the next entries of the log, without a gap.
Deliver(r) ==
    \E n \in Len(delivered[r]) .. Len(log) :
      /\ delivered' = [delivered EXCEPT ![r] = SubSeq(log, 1, n)]
      /\ UNCHANGED <<outcome, log>>

\* A cursor is an offset the reader keeps: it may start over.
StartOver(r) ==
    /\ delivered' = [delivered EXCEPT ![r] = <<>>]
    /\ UNCHANGED <<outcome, log>>

Next ==
    \/ \E d \in Ids, children \in SUBSET Ids, result \in {"published", "failed"} :
          Complete(d, children, result)
    \/ \E r \in Readers : Deliver(r) \/ StartOver(r)

Spec == Init /\ [][Next]_vars
=============================================================================
