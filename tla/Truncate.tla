------------------------------ MODULE Truncate ------------------------------
(* How reply cuts a message down to what its transport permits: truncate of  *)
(* resolvers/builtin/resolver.go.  A message is what truncate sees of it:    *)
(* the number of answers, the packed length of the message for every number  *)
(* of leading answers kept, and its length with the additional records.      *)
(* Names are compressed, so an answer's share of the length is not fixed,    *)
(* but a longer prefix of the answers is always a longer message.            *)
EXTENDS Naturals

CONSTANTS
  MinMsgSize, MaxMsgSize,  \* dns.MinMsgSize, dns.MaxMsgSize
  OptSizes,                \* UDP sizes an OPT record may announce
  NoOpt,                   \* m.IsEdns0() is nil
  MaxAnswers, MaxLength    \* bounds on the messages considered

ASSUME SizesAssumption ==
  /\ MinMsgSize \in Nat /\ MaxMsgSize \in Nat /\ OptSizes \subseteq Nat
  /\ MaxAnswers \in Nat /\ MaxLength \in Nat

VARIABLES
  udp, opt,      \* the transport, and the OPT record's size
  n, length,     \* answers, and k -> m.Len() with k answers and no extras
  full,          \* m.Len() before anything is dropped
  phase,            \* "called", "search" (the loop) or "done"
  truncated,     \* m.Truncated
  extra,         \* m.Extra is still there
  kept,          \* len(m.Answer)
  left, right

message == <<udp, opt, n, length, full>>
truncateVars == <<message, phase, truncated, extra, kept, left, right>>

Lengths(k) ==
  {f \in [0..k -> 0..MaxLength] : \A i, j \in 0..k : i < j => f[i] < f[j]}

\* The permitted length of the channel.
max == IF ~udp THEN MaxMsgSize ELSE IF opt # NoOpt THEN opt ELSE MinMsgSize

TruncateInit ==
  /\ udp \in BOOLEAN /\ opt \in OptSizes \cup {NoOpt}
  /\ n \in 0..MaxAnswers /\ length \in Lengths(n)
  /\ full \in length[n]..MaxLength
  /\ phase = "called" /\ truncated = FALSE /\ extra = TRUE /\ kept = n
  /\ left = 0 /\ right = 0

\* Up to the loop: nothing is dropped from a message that fits, and only the
\* additional records when that is enough.
DropExtra ==
  /\ phase = "called"
  /\ truncated' = (full > max)
  /\ extra' = ~truncated'
  /\ IF truncated' /\ ~(length[n] < max)
       THEN phase' = "search" /\ left' = 0 /\ right' = n
       ELSE phase' = "done" /\ UNCHANGED <<left, right>>
  /\ UNCHANGED <<message, kept>>

\* One turn of the loop, a binary search that probes by cutting m.Answer.
\* (variants: left is not moved past mid; the halves are swapped; one
\* answer more than probed is kept)
Probe_stuck ==
  /\ phase = "search" /\ left # right
  /\ LET mid == (left + right) \div 2
     IN /\ kept' = mid
        /\ IF length[mid] < max
             THEN left' = mid /\ UNCHANGED right
             ELSE right' = mid /\ UNCHANGED left
  /\ UNCHANGED <<message, phase, truncated, extra>>

Probe_swapped ==
  /\ phase = "search" /\ left # right
  /\ LET mid == (left + right) \div 2
     IN /\ kept' = mid
        /\ IF ~(length[mid] < max)
             THEN left' = mid + 1 /\ UNCHANGED right
             ELSE right' = mid /\ UNCHANGED left
  /\ UNCHANGED <<message, phase, truncated, extra>>

Probe_past ==
  /\ phase = "search" /\ left # right
  /\ LET mid == (left + right) \div 2
     IN /\ kept' = mid + 1
        /\ IF length[mid] < max
             THEN left' = mid + 1 /\ UNCHANGED right
             ELSE right' = mid /\ UNCHANGED left
  /\ UNCHANGED <<message, phase, truncated, extra>>

Probe ==
  /\ phase = "search" /\ left # right
  /\ LET mid == (left + right) \div 2
     IN /\ kept' = mid
        /\ IF length[mid] < max
             THEN left' = mid + 1 /\ UNCHANGED right
             ELSE right' = mid /\ UNCHANGED left
  /\ UNCHANGED <<message, phase, truncated, extra>>

Return ==
  /\ phase = "search" /\ left = right
  /\ phase' = "done"
  /\ UNCHANGED <<message, truncated, extra, kept, left, right>>

TruncateNext == DropExtra \/ Probe \/ Return

TruncateSpec == TruncateInit /\ [][TruncateNext]_truncateVars /\ WF_truncateVars(TruncateNext)

-----------------------------------------------------------------------------
(* Properties *)

TruncateTypeOK ==
  /\ udp \in BOOLEAN /\ opt \in OptSizes \cup {NoOpt}
  /\ n \in 0..MaxAnswers /\ length \in Lengths(n) /\ full \in 0..MaxLength
  /\ phase \in {"called", "search", "done"}
  /\ truncated \in BOOLEAN /\ extra \in BOOLEAN
  /\ kept \in 0..n /\ left \in 0..n /\ right \in 0..n

\* truncate never drops an answer it had room for: every prefix of the answers
\* that is shorter than the limit is part of the message it returns, whatever
\* path the binary search took.
KeepsAllThatFits ==
  phase = "done" => \A k \in 0..n : length[k] < max => k <= kept

\* The message truncate returns exceeds the limit by at most the last answer it
\* kept: the search ends at the boundary or one answer past it, never further.
OverByAtMostOne ==
  phase = "done" /\ truncated =>
    \A k \in 0..n : k < kept => length[k] < max

\* The binary search ends: the bounds meet after finitely many probes, so reply
\* always writes its message.
Terminates == <>(phase = "done")
=============================================================================
