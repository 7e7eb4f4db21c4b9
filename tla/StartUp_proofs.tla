--------------------------- MODULE StartUp_proofs ---------------------------
(***************************************************************************)
(* A service with the file keystore keeps its identity, however many times *)
(* it is started and wherever its starts fail or are killed.               *)
(***************************************************************************)
EXTENDS StartUp, TLAPS, FiniteSetTheorems

\* The file never has an encryption key alone or of another identity than the
\* signing key, and who has served has served with the two keys of the file.
FileIsSound ==
  /\ disk.enc # NoKey => disk.enc = disk.sign
  /\ disk.enc = NoKey => served = {}
  /\ served \subseteq {disk.sign}
  /\ bound \subseteq served

\* While run works on the identity, its memory is the copy of the file; afterwards
\* it works with what the file has.
RunKnowsFile ==
  /\ run \in {"identity", "signing", "encryption"} => mem = disk
  /\ run = "signing" => disk = NoKeys
  /\ run = "encryption" => disk.sign = self.sign /\ disk.enc = NoKey
  /\ run \in {"signing", "encryption"} => self.sign = self.enc /\ self.sign # NoKey
  /\ run \in {"connecting", "serving"} => self = disk /\ disk.enc # NoKey
  /\ run = "serving" => self.sign \in served

\* With every keystore, run has an identity by the time it stores or uses one.
RunHasIdentity ==
  run \in {"signing", "encryption", "connecting", "serving"} => self.sign \in Identities

IInv == TypeOK /\ RunHasIdentity /\ (kind = "file" => FileIsSound /\ RunKnowsFile)

LEMMA NoKeysAreKeys == NoKeys \in Keys
BY DEF NoKeys, Keys

LEMMA Initially == ASSUME StartUpAssumption PROVE Init => IInv
<1>1. ASSUME Init PROVE TypeOK
  <2>1. cancelled \in BOOLEAN
    BY <1>1, Zenon DEF Init
  <2>2. /\ kind \in Kinds /\ disk \in Keys /\ mem \in Keys /\ self \in Keys
        /\ made \in 0..MaxIdentities /\ starts \in 0..MaxRuns
        /\ served = {} /\ bound = {}
    BY <1>1, NoKeysAreKeys DEF StartUpAssumption, Init
  <2>3. run = "off" /\ main = "off" /\ report = "nothing" /\ exit = "none"
    BY <1>1, Zenon DEF Init
  <2>4. QED BY <2>1, <2>2, <2>3 DEF TypeOK
<1>2. ASSUME Init PROVE RunHasIdentity /\ FileIsSound /\ RunKnowsFile
  BY <1>2 DEF Init, RunHasIdentity, FileIsSound, RunKnowsFile, NoKeys, NoKey
<1>3. QED BY <1>1, <1>2 DEF IInv

\* Nothing in the file changes, and run gets no further on than it was.
LEMMA Elsewhere ==
  ASSUME IInv, TypeOK', UNCHANGED <<kind, disk, served, bound>>,
         run' \in {"off", "keystore", "over"} \/ UNCHANGED <<run, mem, self>>
  PROVE  IInv'
BY DEF IInv, RunHasIdentity, FileIsSound, RunKnowsFile

\* An end of run, and what main does meanwhile.
LEMMA EndKeeps ==
  ASSUME StartUpAssumption, IInv,
         Fail \/ Finish \/ Start \/ Signal \/ NoticeEnd \/ Drained \/ TimeOut \/ Kill
  PROVE  IInv'
<1>1. TypeOK'
  <2>1. CASE Fail \/ Finish
    BY <2>1 DEF IInv, TypeOK, Fail, Finish, keyVars
  <2>2. CASE Start
    BY <2>2 DEF StartUpAssumption, IInv, TypeOK, Start, keyVars
  <2>3. CASE Signal \/ NoticeEnd
    BY <2>3 DEF IInv, TypeOK, Signal, NoticeEnd, keyVars
  <2>4. CASE Drained \/ TimeOut \/ Kill
    BY <2>4, NoKeysAreKeys DEF IInv, TypeOK, Drained, TimeOut, Kill, Vanish
  <2>5. QED BY <2>1, <2>2, <2>3, <2>4
<1>2. /\ UNCHANGED <<kind, disk, served, bound>>
      /\ run' \in {"off", "keystore", "over"} \/ UNCHANGED <<run, mem, self>>
  BY DEF Fail, Finish, Start, Signal, NoticeEnd, Drained, TimeOut, Kill, Vanish,
         keyVars
<1>3. QED BY <1>1, <1>2, Elsewhere

LEMMA OpenKeeps == ASSUME IInv, OpenKeystore PROVE IInv'
BY NoKeysAreKeys DEF IInv, TypeOK, RunHasIdentity, FileIsSound, RunKnowsFile, OpenKeystore,
       mainVars

\* A service that has served finds both keys.
LEMMA LoadKeeps == ASSUME IInv, LoadIdentity PROVE IInv'
BY DEF IInv, TypeOK, RunHasIdentity, FileIsSound, RunKnowsFile, LoadIdentity, Keys, NoKey,
       Identities, mainVars

\* A new identity is made only for a service without a file.
LEMMA GenerateKeeps == ASSUME StartUpAssumption, IInv, GenerateIdentity PROVE IInv'
<1>1. TypeOK'
  BY DEF StartUpAssumption, IInv, TypeOK, GenerateIdentity, Keys, NoKey, Identities,
         mainVars
<1>2. ASSUME kind = "file" PROVE FileIsSound' /\ RunKnowsFile'
  <2>1. disk = NoKeys
    BY <1>2 DEF IInv, TypeOK, FileIsSound, RunKnowsFile, GenerateIdentity, Keys, NoKeys, NoKey,
                Identities
  <2>2. QED
    BY <1>2, <2>1 DEF StartUpAssumption, IInv, TypeOK, FileIsSound, RunKnowsFile,
                      GenerateIdentity, NoKey, Identities
<1>3. RunHasIdentity'
  BY DEF StartUpAssumption, IInv, TypeOK, RunHasIdentity, GenerateIdentity, Identities
<1>4. QED BY <1>1, <1>2, <1>3 DEF IInv, GenerateIdentity

\* The two stores: the file is either as before, and run is over, or has the key.
LEMMA StoreSigningKeeps == ASSUME IInv, StoreSigningKey PROVE IInv'
<1>1. TypeOK'
  BY DEF IInv, TypeOK, StoreSigningKey, Saved, Keys, NoKey, Identities
<1>2. ASSUME kind = "file" PROVE FileIsSound' /\ RunKnowsFile'
  <2>1. disk = NoKeys /\ mem = disk /\ served = {} /\ bound = {}
    BY <1>2 DEF IInv, FileIsSound, RunKnowsFile, StoreSigningKey, NoKeys, NoKey
  <2>2. UNCHANGED <<served, bound, self>> /\ mem' = [NoKeys EXCEPT !.sign = self.sign]
    BY <2>1 DEF StoreSigningKey
  <2>3. \/ disk' = mem' /\ run' = "encryption"
        \/ disk' = disk /\ run' = "over"
    BY <1>2 DEF StoreSigningKey, Saved
  <2>4. self.sign = self.enc /\ self.sign # NoKey
    BY <1>2 DEF IInv, RunKnowsFile, StoreSigningKey
  <2>5. QED BY <2>1, <2>2, <2>3, <2>4 DEF FileIsSound, RunKnowsFile, NoKeys, NoKey
<1>3. RunHasIdentity'
  BY DEF IInv, RunHasIdentity, StoreSigningKey, Identities
<1>4. QED BY <1>1, <1>2, <1>3 DEF IInv, StoreSigningKey

LEMMA StoreEncryptionKeeps == ASSUME IInv, StoreEncryptionKey PROVE IInv'
<1>1. TypeOK'
  BY DEF IInv, TypeOK, StoreEncryptionKey, Saved, Keys, NoKey, Identities
<1>2. ASSUME kind = "file" PROVE FileIsSound' /\ RunKnowsFile'
  <2>1. /\ mem = disk /\ disk.sign = self.sign /\ disk.enc = NoKey
        /\ served = {} /\ bound = {}
        /\ self.sign = self.enc /\ self.sign # NoKey
        /\ self \in Keys /\ disk \in Keys
    BY <1>2 DEF IInv, TypeOK, FileIsSound, RunKnowsFile, StoreEncryptionKey
  <2>2. UNCHANGED <<served, bound, self>> /\ mem' = [disk EXCEPT !.enc = self.enc]
    BY <2>1 DEF StoreEncryptionKey
  <2>3. mem' = self
    BY <2>1, <2>2 DEF Keys
  <2>4. \/ disk' = mem' /\ run' = "connecting"
        \/ disk' = disk /\ run' = "over"
    BY <1>2 DEF StoreEncryptionKey, Saved
  <2>5. QED BY <2>1, <2>2, <2>3, <2>4 DEF FileIsSound, RunKnowsFile, NoKey
<1>3. RunHasIdentity'
  BY DEF IInv, RunHasIdentity, StoreEncryptionKey, Identities
<1>4. QED BY <1>1, <1>2, <1>3 DEF IInv, StoreEncryptionKey

LEMMA ServeKeeps == ASSUME IInv, Connect \/ StoreContract PROVE IInv'
<1>1. TypeOK'
  <2>1. self.sign \in Identities
    BY DEF IInv, RunHasIdentity, Connect, StoreContract
  <2>2. served' \subseteq Identities /\ bound' \subseteq Identities
    BY <2>1 DEF IInv, TypeOK, Connect, StoreContract
  <2>3. QED BY <2>2 DEF IInv, TypeOK, Connect, StoreContract, keyVars, mainVars
<1>2. RunHasIdentity'
  BY DEF IInv, RunHasIdentity, Connect, StoreContract, keyVars, Identities
<1>3. ASSUME kind = "file" PROVE FileIsSound' /\ RunKnowsFile'
  <2>1. /\ self = disk /\ disk.enc # NoKey /\ FileIsSound
        /\ run = "serving" => self.sign \in served
    BY <1>3 DEF IInv, RunKnowsFile, Connect, StoreContract
  <2>2. disk' = disk /\ self' = self /\ mem' = mem /\ run' = "serving"
    BY DEF Connect, StoreContract, keyVars
  <2>3. \/ served' = served \cup {self.sign} /\ bound' = bound
        \/ run = "serving" /\ served' = served /\ bound' = bound \cup {self.sign}
    BY DEF Connect, StoreContract
  <2>4. RunKnowsFile'
    BY <2>1, <2>2, <2>3 DEF RunKnowsFile
  <2>5. FileIsSound'
    BY <2>1, <2>2, <2>3 DEF FileIsSound
  <2>6. QED BY <2>4, <2>5
<1>4. QED BY <1>1, <1>2, <1>3 DEF IInv, Connect, StoreContract

LEMMA StepKeeps == ASSUME StartUpAssumption, IInv, [Next]_vars PROVE IInv'
<1>1. CASE Next
  BY <1>1, EndKeeps, OpenKeeps, LoadKeeps, GenerateKeeps, StoreSigningKeeps,
     StoreEncryptionKeeps, ServeKeeps DEF Next, RunStep
<1>2. CASE UNCHANGED vars
  BY <1>2 DEF vars, keyVars, mainVars, IInv, TypeOK, RunHasIdentity, Identities, FileIsSound,
              RunKnowsFile
<1>3. QED BY <1>1, <1>2

THEOREM Invariance == ASSUME StartUpAssumption PROVE Spec => []IInv
<1>1. Init => IInv BY Initially
<1>2. IInv /\ [Next]_vars => IInv' BY StepKeeps
<1>3. QED BY <1>1, <1>2, PTL DEF Spec

\* The types of the process's state.
THEOREM TypeCorrect == ASSUME StartUpAssumption PROVE Spec => []TypeOK
<1>1. IInv => TypeOK BY DEF IInv
<1>2. QED BY <1>1, Invariance, PTL

\* One identity for good: a service with the file keystore never serves under a
\* second one and finds every contract it has stored.
THEOREM OneIdentity == ASSUME StartUpAssumption PROVE Spec => []IdentityIsKept
<1>1. ASSUME IInv, kind = "file" PROVE Cardinality(served) =< 1
  <2>1. served = {} \/ served = {disk.sign}
    BY <1>1 DEF IInv, FileIsSound
  <2>2. CASE served = {}
    BY <2>2, FS_EmptySet
  <2>3. CASE served = {disk.sign}
    <3>1. Cardinality({disk.sign}) = 1
      BY FS_Singleton
    <3>2. QED BY <2>3, <3>1
  <2>4. QED BY <2>1, <2>2, <2>3
<1>2. IInv => IdentityIsKept
  BY <1>1 DEF IInv, FileIsSound, RunKnowsFile, IdentityIsKept
<1>3. QED BY <1>2, Invariance, PTL
=============================================================================
