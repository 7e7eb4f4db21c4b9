----------------------------- MODULE RateLimiter -----------------------------
(***************************************************************************)
(* The token buckets of src/vault/internal/api/middleware.go, for one      *)
(* client address, which is what the code tells clients by (not by API     *)
(* key): no step involves the buckets of two.                              *)
(*                                                                         *)
(* A request first takes the client's bucket from the map, or puts a full  *)
(* one there, and later locks it, refills it by the time that has passed,  *)
(* and takes a token.  The clean-up deletes from the map a bucket that has *)
(* not been refilled for some time; requests that hold it still use it.    *)
(*                                                                         *)
(* The code counts in floating-point numbers of tokens and seconds.  Here  *)
(* a token has `Token' parts, and the clock ticks once per part.           *)
(***************************************************************************)
EXTENDS Integers

CONSTANTS Callers,    \* goroutines that serve requests
          Buckets,    \* tokenBucket objects
          Token,      \* parts in a token
          Burst,      \* burstSize, in parts
          Stale,      \* the age at which a bucket is deleted, in ticks
          MaxTick     \* bound on the clock

NoBucket == "no bucket"

\* Ten minutes, the age at which a bucket is deleted, are enough to fill it.  Nothing
\* in config.go demands it: a burst of more than ten minutes' tokens is accepted, and
\* then a deleted bucket gives way to one with more in it.
RateLimiterAssumption ==
  /\ Token \in Nat \ {0} /\ Burst \in Nat /\ Stale \in Nat /\ MaxTick \in Nat
  /\ Stale >= Burst
  /\ NoBucket \notin Buckets

VARIABLES now,
          listed,     \* the bucket in the map
          level,      \* tokens of a bucket, in parts
          filledAt,   \* lastRefill
          used,       \* the buckets there have been
          holds,      \* the bucket a caller has loaded
          mark,       \* the moment an observer begins to count
          spent,      \* parts taken since then from the bucket in the map ...
          spentBeside \* ... and from one that has been deleted from it

limiterVars == <<now, listed, level, filledAt, used, holds, mark, spent, spentBeside>>

TypeOK ==
  /\ now \in Nat /\ mark \in 0..now
  /\ listed \in Buckets \cup {NoBucket}
  /\ level \in [Buckets -> 0..Burst]
  /\ filledAt \in [Buckets -> Nat]
  /\ used \subseteq Buckets
  /\ holds \in [Callers -> Buckets \cup {NoBucket}]
  /\ spent \in Nat /\ spentBeside \in Nat

Init ==
  /\ now = 0 /\ mark = 0 /\ spent = 0 /\ spentBeside = 0
  /\ listed = NoBucket /\ used = {}
  /\ level = [b \in Buckets |-> 0] /\ filledAt = [b \in Buckets |-> 0]
  /\ holds = [c \in Callers |-> NoBucket]

Tick == /\ now < MaxTick
        /\ now' = now + 1
        /\ UNCHANGED <<listed, level, filledAt, used, holds, mark, spent, spentBeside>>

Mark == /\ mark' = now /\ spent' = 0 /\ spentBeside' = 0
        /\ UNCHANGED <<now, listed, level, filledAt, used, holds>>

\* LoadOrStore of allow.
Load(c) ==
  /\ holds[c] = NoBucket
  /\ \/ /\ listed # NoBucket
        /\ holds' = [holds EXCEPT ![c] = listed]
        /\ UNCHANGED <<listed, level, filledAt, used>>
     \/ /\ listed = NoBucket
        /\ \E b \in Buckets \ used :
             /\ listed' = b /\ used' = used \cup {b}
             /\ level' = [level EXCEPT ![b] = Burst]
             /\ filledAt' = [filledAt EXCEPT ![b] = now]
             /\ holds' = [holds EXCEPT ![c] = b]
  /\ UNCHANGED <<now, mark, spent, spentBeside>>

\* FAULT: the bucket is not limited to the burst.
RefilledUnlimited(b) == level[b] + (now - filledAt[b])

Refilled(b) == IF level[b] + (now - filledAt[b]) > Burst THEN Burst
               ELSE level[b] + (now - filledAt[b])

\* The rest of allow, under the bucket's lock.
Allow(c) ==
  /\ holds[c] # NoBucket
  /\ Refilled(holds[c]) >= Token
  /\ level' = [level EXCEPT ![holds[c]] = Refilled(holds[c]) - Token]
  /\ filledAt' = [filledAt EXCEPT ![holds[c]] = now]
  /\ IF holds[c] = listed
     THEN spent' = spent + Token /\ UNCHANGED spentBeside
     ELSE spentBeside' = spentBeside + Token /\ UNCHANGED spent
  /\ holds' = [holds EXCEPT ![c] = NoBucket]
  /\ UNCHANGED <<now, listed, used, mark>>

Deny(c) ==
  /\ holds[c] # NoBucket
  /\ Refilled(holds[c]) < Token
  /\ level' = [level EXCEPT ![holds[c]] = Refilled(holds[c])]
  /\ filledAt' = [filledAt EXCEPT ![holds[c]] = now]
  /\ holds' = [holds EXCEPT ![c] = NoBucket]
  /\ UNCHANGED <<now, listed, used, mark, spent, spentBeside>>

\* FAULT: the clean-up deletes every bucket it finds.
CleanupAll ==
  /\ listed # NoBucket
  /\ listed' = NoBucket
  /\ UNCHANGED <<now, level, filledAt, used, holds, mark, spent, spentBeside>>

Cleanup ==
  /\ listed # NoBucket /\ filledAt[listed] + Stale < now
  /\ listed' = NoBucket
  /\ UNCHANGED <<now, level, filledAt, used, holds, mark, spent, spentBeside>>

Next == \/ Tick \/ Mark \/ Cleanup
        \/ \E c \in Callers : Load(c) \/ Allow(c) \/ Deny(c)

Spec == Init /\ [][Next]_limiterVars

-----------------------------------------------------------------------------
\* Over every span of time a client is granted no more than a burst and what the
\* time has refilled, although the clean-up may replace its bucket by a full one in
\* between.  The requests that had loaded a bucket when the clean-up deleted it are
\* not counted here: they may have another burst among them.
GrantsAreBounded == spent =< Burst + (now - mark)
=============================================================================
