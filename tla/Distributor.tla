---------------------------- MODULE Distributor ----------------------------
(***************************************************************************)
(* A reader of a Redis stream (services/ingress/distributor.ts): one XREAD  *)
(* at a time, each for the first entry after the last one it was given.     *)
(* Entries are numbered in the order they are added; the oldest ones may be *)
(* trimmed.                                                                *)
(***************************************************************************)
EXTENDS Integers, FiniteSetsExt

CONSTANT Latest   \* the id "$": whatever is in the stream when Redis gets the XREAD

\* reads (at "calling") or waits in Redis ("blocked") for an entry after from.
Reader == [at : {"off", "calling", "blocked", "stopped"}, id : Nat \cup {Latest}, from : Nat]

NoReader == [at |-> "off", id |-> Latest, from |-> 0]

NewReader(id) == [at |-> "calling", id |-> id, from |-> 0]

\* Variant: every read is for what comes after it.
XReadLatest(r, top) == [r EXCEPT !.at = "blocked", !.from = top]

\* #xread: Redis gets the command when top entries have been added.
XRead(r, top) ==
    [at |-> "blocked", id |-> r.id, from |-> IF r.id = Latest THEN top ELSE r.id]

\* The entry a blocked reader is given, when there is one.
Entry(r, trimmed) == Max({r.from, trimmed}) + 1
HasEntry(r, trimmed, top) == r.at = "blocked" /\ Entry(r, trimmed) <= top

\* Variant: the reader asks again for what it was given to read first.
KeepId(r, n) == [r EXCEPT !.at = "calling"]

\* The next read is for what comes after the entry.
After(r, n) == [at |-> "calling", id |-> n, from |-> r.from]

\* BLOCK 500 is over: the same id again.
TimedOut(r) == [r EXCEPT !.at = "calling"]

\* A read that rejects, or a handler that throws, is logged: nothing reads on.
Stopped(r) == [r EXCEPT !.at = "stopped"]
=============================================================================
