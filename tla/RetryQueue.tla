----------------------------- MODULE RetryQueue ------------------------------
(***************************************************************************)
(* What a retry queue promises to the flow that uses it: a first-in         *)
(* first-out queue with at-least-once delivery.  A kill may repeat entries   *)
(* already handed out, and those the last compaction left out, and loses     *)
(* none.                                                                    *)
(***************************************************************************)
EXTENDS Naturals, Sequences

CONSTANT
    key          \* key[e]: what makes two entries duplicates

VARIABLES
    expired,     \* input: the entries that are past their time to live
    q,           \* the entries still to be handed out, oldest first
    behind,      \* handed out, but repeated if the process is killed now
    trash,       \* left out by a compaction whose files are not yet removed
    up           \* whether the process that owns the queue is running

qvars == <<q, behind, trash, up>>

IsPrefixOf(s, t) == Len(s) <= Len(t) /\ SubSeq(t, 1, Len(s)) = s
Elements(s) == {s[i] : i \in 1 .. Len(s)}

(* s is t with some entries left out: their order is kept. *)
IsSubsequenceOf(s, t) ==
    /\ Len(s) <= Len(t)
    /\ \E f \in [1 .. Len(s) -> 1 .. Len(t)] :
          /\ \A i, j \in 1 .. Len(s) : i < j => f[i] < f[j]
          /\ \A i \in 1 .. Len(s) : s[i] = t[f[i]]

QInit == q = <<>> /\ behind = <<>> /\ trash = <<>> /\ up = TRUE

Accept == /\ up
          /\ IsPrefixOf(q, q')
          /\ UNCHANGED <<behind, trash, up>>

HandOut == /\ up
           /\ q # <<>>
           /\ q' = Tail(q)
           /\ behind' = Append(behind, Head(q))
           /\ UNCHANGED <<trash, up>>

(* The entries handed out will not be repeated any more. *)
Forget == up /\ behind' = <<>> /\ UNCHANGED <<q, trash, up>>

(* Duplicates and expired entries are left out: of the entries with a given
   key one stays, unless one of them is expired. *)
Compact ==
    /\ up /\ behind = <<>> /\ trash = <<>>
    /\ \A e \in Elements(q) : \/ \E d \in Elements(q') : key[d] = key[e]
                              \/ \E d \in Elements(q) : key[d] = key[e] /\ d \in expired
    /\ trash' = q
    /\ IsSubsequenceOf(q', q)
    /\ UNCHANGED <<behind, up>>

Dispose == up /\ trash' = <<>> /\ UNCHANGED <<q, behind, up>>

(* The process ends, and is started again. *)
Die == /\ up /\ up' = FALSE
       /\ q' \in {behind \o q, behind \o q \o trash}
       /\ behind' = <<>>
       /\ trash' = <<>>

Recover == ~ up /\ up' = TRUE /\ UNCHANGED <<q, behind, trash>>

(* The operator throws the queue of a stopped process away. *)
Purge == ~ up /\ q' = <<>> /\ UNCHANGED <<behind, trash, up>>

QNext == Accept \/ HandOut \/ Forget \/ Compact \/ Dispose \/ Die \/ Recover \/ Purge

QSpec == QInit /\ [][QNext]_qvars
=============================================================================
