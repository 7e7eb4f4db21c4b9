------------------------------- MODULE StartUp -------------------------------
(***************************************************************************)
(* Life of the vault process: main, run, initKeystore and                  *)
(* loadOrGenerateIdentity of src/vault/cmd/service-vault/main.go with the  *)
(* keystores of src/vault/internal/keystore.                               *)
(*                                                                         *)
(* The identity of the service is its key pair.  A start takes it from the *)
(* keystore or makes a new one and stores its two keys, one after the      *)
(* other.  The file keystore keeps a copy in memory, which it writes to    *)
(* its file after every change; the memory and the KMS keystore keep their *)
(* keys in memory only.  Contracts are stored under the identity.          *)
(*                                                                         *)
(* The goroutine `run' does the work and reports its end to main, which    *)
(* also waits for a signal and, after either, for run to end, but no more  *)
(* than 30 seconds.  The process may be killed at any moment.              *)
(***************************************************************************)
EXTENDS Integers, FiniteSets

CONSTANTS Kinds,          \* the kinds of keystore that are configured
          MaxIdentities,  \* bound on the identities that are generated
          MaxRuns         \* bound on the starts of the process

StartUpAssumption ==
  /\ Kinds \subseteq {"memory", "file", "kms"}
  /\ MaxIdentities \in Nat /\ MaxRuns \in Nat

VARIABLES kind,        \* KeystoreType
          disk, mem,   \* the signing and the encryption key in the file, in memory
          run,         \* how far run has got
          self,        \* the keys of the identity run works with
          main,        \* where main is
          cancelled,   \* the context
          report,      \* what run has reported and main has not read
          exit,        \* how the last process ended
          made,        \* identities generated so far
          starts,      \* starts so far
          served,      \* identities that have served
          bound        \* identities that contracts are stored under

keyVars  == <<disk, mem, self, made>>
mainVars == <<main, cancelled, report, exit>>
vars == <<kind, keyVars, run, mainVars, starts, served, bound>>

Identities == 1..MaxIdentities
NoKey == 0
Keys  == [sign : Identities \cup {NoKey}, enc : Identities \cup {NoKey}]
NoKeys == [sign |-> NoKey, enc |-> NoKey]

TypeOK ==
  /\ kind \in Kinds
  /\ disk \in Keys /\ mem \in Keys /\ self \in Keys
  /\ run \in {"off", "keystore", "identity", "signing", "encryption", "connecting",
              "serving", "over"}
  /\ main \in {"off", "waiting", "draining"}
  /\ cancelled \in BOOLEAN
  /\ report \in {"nothing", "error", "fine"}
  /\ exit \in {"none", "zero", "one", "killed"}
  /\ made \in 0..MaxIdentities /\ starts \in 0..MaxRuns
  /\ served \subseteq Identities /\ bound \subseteq Identities

Init ==
  /\ kind \in Kinds
  /\ disk = NoKeys /\ mem = NoKeys /\ self = NoKeys
  /\ run = "off" /\ main = "off" /\ cancelled = FALSE
  /\ report = "nothing" /\ exit = "none"
  /\ made = 0 /\ starts = 0
  /\ served = {} /\ bound = {}

-----------------------------------------------------------------------------
(* run.                                                                    *)

\* Any step of run may fail: it returns the error.
Fail ==
  /\ run \in {"keystore", "identity", "signing", "encryption", "connecting", "serving"}
  /\ run' = "over" /\ report' = "error"
  /\ UNCHANGED <<kind, disk, mem, self, made, main, cancelled, exit, starts, served, bound>>

\* initKeystore: the file is read; the others start empty.
OpenKeystore ==
  /\ run = "keystore"
  /\ mem' = IF kind = "file" THEN disk ELSE NoKeys
  /\ run' = "identity"
  /\ UNCHANGED <<kind, disk, self, made, mainVars, starts, served, bound>>

\* loadOrGenerateIdentity finds a signing key, and without the other one fails.
LoadIdentity ==
  /\ run = "identity" /\ mem.sign # NoKey
  /\ IF mem.enc # NoKey
     THEN self' = mem /\ run' = "connecting" /\ UNCHANGED report
     ELSE run' = "over" /\ report' = "error" /\ UNCHANGED self
  /\ UNCHANGED <<kind, disk, mem, made, main, cancelled, exit, starts, served, bound>>

GenerateIdentity ==
  /\ run = "identity" /\ mem.sign = NoKey
  /\ made < MaxIdentities
  /\ made' = made + 1
  /\ self' = [sign |-> made + 1, enc |-> made + 1]
  /\ run' = "signing"
  /\ UNCHANGED <<kind, disk, mem, mainVars, starts, served, bound>>

\* Every store of the file keystore rewrites the file, in one step (rename).
Saved(keys) == IF kind = "file" THEN keys ELSE disk

\* A save that fails leaves the key in memory and ends the run.
StoreSigningKey ==
  /\ run = "signing"
  /\ mem' = [mem EXCEPT !.sign = self.sign]
  /\ \/ disk' = Saved(mem') /\ run' = "encryption" /\ UNCHANGED report
     \/ run' = "over" /\ report' = "error" /\ UNCHANGED disk
  /\ UNCHANGED <<kind, self, made, main, cancelled, exit, starts, served, bound>>

\* FAULT: an identity is put to use although its key could not be saved.
StoreEncryptionKeyAnyway ==
  /\ run = "encryption"
  /\ mem' = [mem EXCEPT !.enc = self.enc]
  /\ disk' \in {disk, Saved([mem EXCEPT !.enc = self.enc])} /\ run' = "connecting"
  /\ UNCHANGED <<kind, self, made, mainVars, starts, served, bound>>

StoreEncryptionKey ==
  /\ run = "encryption"
  /\ mem' = [mem EXCEPT !.enc = self.enc]
  /\ \/ disk' = Saved(mem') /\ run' = "connecting" /\ UNCHANGED report
     \/ run' = "over" /\ report' = "error" /\ UNCHANGED disk
  /\ UNCHANGED <<kind, self, made, main, cancelled, exit, starts, served, bound>>

\* NATS is tried and done without; then the table, the engine and the server.
Connect ==
  /\ run = "connecting"
  /\ run' = "serving" /\ served' = served \cup {self.sign}
  /\ UNCHANGED <<kind, keyVars, mainVars, starts, bound>>

\* The negotiator stores a contract with a user under the ServiceID.
StoreContract ==
  /\ run = "serving"
  /\ bound' = bound \cup {self.sign}
  /\ UNCHANGED <<kind, keyVars, run, mainVars, starts, served>>

\* The context is looked at only once the server runs; errors of the server's
\* shutdown are logged.
Finish ==
  /\ run = "serving" /\ cancelled
  /\ run' = "over" /\ report' = "fine"
  /\ UNCHANGED <<kind, keyVars, main, cancelled, exit, starts, served, bound>>

-----------------------------------------------------------------------------
(* main.                                                                   *)

Start ==
  /\ main = "off" /\ starts < MaxRuns
  /\ starts' = starts + 1 /\ exit' = "none"
  /\ main' = "waiting" /\ run' = "keystore"
  /\ UNCHANGED <<kind, keyVars, cancelled, report, served, bound>>

Signal ==
  /\ main = "waiting"
  /\ main' = "draining" /\ cancelled' = TRUE
  /\ UNCHANGED <<kind, keyVars, run, report, exit, starts, served, bound>>

\* The first select takes the report of a run that has ended, if there is one.
NoticeEnd ==
  /\ main = "waiting" /\ report # "nothing"
  /\ main' = "draining" /\ cancelled' = TRUE /\ report' = "nothing"
  /\ UNCHANGED <<kind, keyVars, run, exit, starts, served, bound>>

\* The process is gone, and with it what it had in memory.
Vanish(how) ==
  /\ exit' = how /\ main' = "off" /\ run' = "off"
  /\ mem' = NoKeys /\ self' = NoKeys
  /\ cancelled' = FALSE /\ report' = "nothing"
  /\ UNCHANGED <<kind, disk, made, starts, served, bound>>

\* The second select takes the report of a run that ends after the signal.
Drained == /\ main = "draining" /\ report # "nothing"
           /\ Vanish(IF report = "error" THEN "one" ELSE "zero")

\* FAULT: the second select waits for run alone.
TimeOutNever == /\ main = "draining" /\ report # "nothing"
                /\ Vanish("zero")

\* ... or gives up after 30 seconds: always, if the first has taken the report.
TimeOut == /\ main = "draining" /\ Vanish("zero")

Kill == /\ main # "off" /\ Vanish("killed")

-----------------------------------------------------------------------------
RunStep == \/ Fail \/ OpenKeystore \/ LoadIdentity \/ GenerateIdentity
           \/ StoreSigningKey \/ StoreEncryptionKey \/ Connect \/ StoreContract \/ Finish

Next == RunStep \/ Start \/ Signal \/ NoticeEnd \/ Drained \/ TimeOut \/ Kill

Spec == Init /\ [][Next]_vars

\* main's select sees what has been reported, and the 30 seconds pass.
Fairness == WF_vars(NoticeEnd) /\ WF_vars(TimeOut)

FairSpec == Spec /\ Fairness

-----------------------------------------------------------------------------
\* With the file keystore a service has one identity, for good, whenever its starts
\* fail or its processes are killed: it works with the two keys it has on disk, and
\* every contract that an earlier run stored is one of its own.  A start that stops
\* at a missing encryption key is that of a service that has never served.
IdentityIsKept ==
  kind = "file" =>
    /\ Cardinality(served) =< 1
    /\ run \in {"connecting", "serving"} => self = disk /\ self.sign = self.enc
    /\ run = "serving" => bound \subseteq {self.sign}
    /\ disk.enc = NoKey => served = {}

\* A process that is asked to stop, or whose run has ended, does not outlive the
\* shutdown: it is gone some time, and run with it.
ProcessEnds == (main = "draining" \/ run = "over") ~> main = "off"
=============================================================================
