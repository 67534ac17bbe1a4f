------------------------ MODULE CredentialStoreProof ------------------------
(***************************************************************************)
(* The credential survives every migration, the configuration stays        *)
(* readable and a rotation starts clean, for every number of calls,        *)
(* credentials and categories.                                             *)
(*                                                                         *)
(* The argument: only the holder of config.json.lock changes config.json,  *)
(* so what it has read stays true until it writes; and the one step that   *)
(* drops the credential from config.json comes after the keychain was      *)
(* seen to hold it, and is never undone.                                   *)
(***************************************************************************)
EXTENDS CredentialStore, TLAPS

\* What a call knows of the configuration while it holds the lock.
Moving(c) ==
    op[c] = "migrate" /\ pc[c] \in {"comparing", "storing", "verifying", "rolling back"}

\* A migration under way: the credential is still in config.json.
MovingInv(c) ==
    Moving(c) => /\ config # None
                 /\ config.apiKey # None
                 /\ secret[c] = config.apiKey
                 /\ buffer[c] # None

\* Its item is put where there was none, and removed only if it put it there.
CreatedInv(c) ==
    /\ pc[c] = "comparing" => op[c] = "migrate"
    /\ pc[c] \in {"storing", "verifying"} => op[c] \in {"set", "migrate"}
    /\ op[c] = "migrate" /\ pc[c] = "storing" => c \in created /\ keychain = None
    /\ pc[c] = "rolling back" => c \in created
    /\ c \in created =>
          /\ op[c] = "migrate"
          /\ pc[c] \in {"storing", "verifying", "writing", "rolling back", "returned", "dead"}
          /\ pc[c] = "writing" => config # None /\ config.apiKey # None

\* The credential is in the keychain when a write is about to drop it.
WritingInv(c) ==
    pc[c] = "writing" /\ config # None /\ config.apiKey # None =>
        secret[c] = config.apiKey /\ (keychain = secret[c] \/ discarded)

\* What is about to be written is readable, without a credential, and keeps
\* the rows unless this is a rotation.
BufferInv(c) ==
    pc[c] \in Locked \ {"reading"} /\ buffer[c] # None =>
        /\ buffer[c].apiKey = None
        /\ Readable(buffer[c])
        /\ op[c] = "set" => BoundRows(buffer[c]) = NoRows
        /\ op[c] # "set" /\ config # None =>
              \A x \in Category :
                  BoundRows(config)[x] # None => BoundRows(buffer[c])[x] # None

RotatedInv(c) ==
    op[c] = "set" /\ pc[c] = "storing" /\ config # None => BoundRows(config) = NoRows

\* A probe was made with a credential; before it reads a call writes nothing.
ProbeInv(c) ==
    /\ op[c] = "record" /\ pc[c] \in {"probing", "waiting", "reading"} => secret[c] # None
    /\ pc[c] \in {"idle", "probing", "waiting", "reading"} => buffer[c] = None

Local(c) ==
    /\ ProbeInv(c)
    /\ MovingInv(c)
    /\ CreatedInv(c)
    /\ WritingInv(c)
    /\ BufferInv(c)
    /\ RotatedInv(c)

\* The credential in config.json is the one it had in the beginning.
LegacyInv ==
    /\ config # None => config.apiKey \in {None, legacy}
    /\ legacy # None => config # None

IInv ==
    /\ TypeOK
    /\ LegacyInv
    /\ ConfigStaysReadable
    /\ SecretSurvives
    /\ \A c \in Call : Local(c)

-----------------------------------------------------------------------------
(* What the helpers return                                                 *)

\* The empty set of rows is one, and no set of rows is the previous format.
LEMMA RowsFacts == NoRows \in Rows /\ Unbound \notin Rows /\ None \notin Config
BY ConfigNone DEF NoRows, Rows

\* BoundRows always gives rows.
LEMMA BoundRowsType ==
    ASSUME NEW f \in Config
    PROVE  BoundRows(f) \in Rows
BY RowsFacts DEF BoundRows, Config

\* An upgraded configuration is of version 1 and has the rows it was given.
LEMMA UpgradedFacts ==
    ASSUME NEW f \in Config, NEW rows \in Rows
    PROVE  /\ Upgraded(f, rows) \in Config
           /\ Upgraded(f, rows).apiKey = f.apiKey
           /\ BoundRows(Upgraded(f, rows)) = rows
           /\ f.apiKey = None => Readable(Upgraded(f, rows))
BY RowsFacts DEF Upgraded, Config, BoundRows, Readable

\* Taking the credential out leaves the rest.
LEMMA WithoutKeyFacts ==
    ASSUME NEW f \in Config
    PROVE  /\ WithoutKey(f) \in Config
           /\ WithoutKey(f).apiKey = None
BY DEF WithoutKey, Config

\* A missing file reads as one without credential and rows.
LEMMA FreshFacts == Fresh \in Config /\ Fresh.apiKey = None
BY DEF Fresh, Config

-----------------------------------------------------------------------------
(* The calls that do not step                                              *)

\* A step of c changes only c's own state, and the stores under the lock only.
Frame(c) ==
    /\ \A d \in Call \ {c} : /\ pc'[d] = pc[d]
                             /\ op'[d] = op[d]
                             /\ secret'[d] = secret[d]
                             /\ buffer'[d] = buffer[d]
                             /\ d \in created' <=> d \in created
    /\ pc[c] \in Locked \/ UNCHANGED <<stores, discarded>>

\* Such a step leaves what the others know.
LEMMA Others ==
    ASSUME IInv, NEW c \in Call, Frame(c), NEW d \in Call, d # c
    PROVE  Local(d)'
<1>1. Local(d) /\ (pc[d] \in Locked => pc[c] \notin Locked)
  BY DEF IInv, TypeOK
<1>2. /\ pc'[d] = pc[d]
      /\ op'[d] = op[d]
      /\ secret'[d] = secret[d]
      /\ buffer'[d] = buffer[d]
      /\ d \in created' <=> d \in created
  BY DEF Frame
<1>3. CASE pc[c] \in Locked
  BY <1>1, <1>2, <1>3
     DEF Local, ProbeInv, Moving, MovingInv, CreatedInv, WritingInv, BufferInv, RotatedInv, Locked
<1>4. CASE pc[c] \notin Locked
  <2>1. keychain' = keychain /\ config' = config /\ discarded' = discarded
    BY <1>4 DEF Frame, stores
  <2>2. /\ ProbeInv(d)' /\ MovingInv(d)' /\ CreatedInv(d)' /\ WritingInv(d)' /\ RotatedInv(d)'
    BY <1>1, <1>2, <2>1
       DEF Local, ProbeInv, Moving, MovingInv, CreatedInv, WritingInv, RotatedInv
  <2>3. BufferInv(d)'
    BY <1>1, <1>2, <2>1 DEF Local, BufferInv, Readable
  <2>4. QED
    BY <2>2, <2>3 DEF Local
<1>5. QED
  BY <1>3, <1>4

\* What a step of c has to show.
LEMMA Combine ==
    ASSUME IInv, NEW c \in Call, Frame(c), TypeOK', Local(c)',
           LegacyInv', ConfigStaysReadable', SecretSurvives'
    PROVE  IInv'
<1>1. ASSUME NEW d \in Call PROVE Local(d)'
  BY Others
<1>2. QED
  BY <1>1 DEF IInv

\* What a step that leaves the stores alone need not show.
LEMMA StoresAlone ==
    ASSUME IInv, UNCHANGED <<stores, history>>
    PROVE  LegacyInv' /\ ConfigStaysReadable' /\ SecretSurvives'
<1>1. UNCHANGED <<keychain, config, legacy, discarded>>
  BY DEF stores, history
<1>2. QED
  BY <1>1 DEF IInv, LegacyInv, ConfigStaysReadable, SecretSurvives, Readable, Has

-----------------------------------------------------------------------------
(* Every action preserves the invariant                                    *)

LEMMA RemoveStep ==
    ASSUME IInv, Remove
    PROVE  IInv'
<1>1. TypeOK'
  BY DEF Remove, IInv, TypeOK
<1>2. LegacyInv' /\ ConfigStaysReadable' /\ SecretSurvives'
  BY DEF Remove, IInv, LegacyInv, ConfigStaysReadable, SecretSurvives, Readable
<1>3. ASSUME NEW c \in Call PROVE Local(c)'
  <2>1. Local(c)
    BY DEF IInv
  <2>2. ProbeInv(c)' /\ MovingInv(c)' /\ CreatedInv(c)' /\ WritingInv(c)' /\ RotatedInv(c)'
    BY <2>1 DEF Remove, Local, ProbeInv, Moving, MovingInv, CreatedInv, WritingInv, RotatedInv
  <2>3. BufferInv(c)'
    BY <2>1 DEF Remove, Local, BufferInv, Readable
  <2>4. QED
    BY <2>2, <2>3 DEF Local
<1>4. QED
  BY <1>1, <1>2, <1>3 DEF IInv

\* The steps that leave the stores and the lock alone.
LEMMA OutsideStep ==
    ASSUME IInv, NEW c \in Call,
           CallSet(c) \/ CallMigrate(c) \/ CallRecord(c) \/ Probed(c) \/ Crash(c)
    PROVE  IInv'
<1>1. TypeOK'
  <2>1. TypeOK
    BY DEF IInv
  <2>2. CASE CallSet(c)
    <3>1. PICK s \in Secret : secret' = [secret EXCEPT ![c] = s]
      BY <2>2 DEF CallSet
    <3>2. /\ op' = [op EXCEPT ![c] = "set"]
          /\ pc' = [pc EXCEPT ![c] = "waiting"]
          /\ UNCHANGED <<keychain, config, lock, buffer, created, legacy, discarded>>
      BY <2>2 DEF CallSet, Goto, stores, history
    <3>3. QED
      BY <2>1, <3>1, <3>2 DEF TypeOK, Op, Locked
  <2>3. CASE CallMigrate(c)
    BY <2>1, <2>3 DEF CallMigrate, Goto, TypeOK, Op, Locked, stores, history
  <2>4. CASE CallRecord(c)
    <3>1. /\ op' = [op EXCEPT ![c] = "record"]
          /\ UNCHANGED <<keychain, config, lock, buffer, created, legacy, discarded>>
      BY <2>4 DEF CallRecord, stores, history
    <3>2. PICK label \in {"probing", "returned"} : pc' = [pc EXCEPT ![c] = label]
      BY <2>4 DEF CallRecord, Goto
    <3>3. secret' \in [Call -> Secret \cup {None}]
      BY <2>1, <2>4 DEF CallRecord, TypeOK
    <3>4. QED
      BY <2>1, <3>1, <3>2, <3>3 DEF TypeOK, Op, Locked
  <2>5. CASE Probed(c)
    BY <2>1, <2>5 DEF Probed, Goto, TypeOK, Locked, stores, history
  <2>6. CASE Crash(c)
    BY <2>1, <2>6 DEF Crash, Goto, TypeOK, Locked, stores, history
  <2>7. QED
    BY <2>2, <2>3, <2>4, <2>5, <2>6
<1>2. UNCHANGED <<stores, history>> /\ created' = created
  BY DEF CallSet, CallMigrate, CallRecord, Probed, Crash
<1>3. Frame(c)
  BY <1>2 DEF CallSet, CallMigrate, CallRecord, Probed, Crash, Goto, Frame, IInv, TypeOK, history
<1>4. pc'[c] \in {"waiting", "probing", "returned", "dead"}
  BY DEF CallSet, CallMigrate, CallRecord, Probed, Crash, Goto, IInv, TypeOK
<1>5. c \in created => op'[c] = "migrate" /\ pc'[c] \in {"returned", "dead"}
  BY DEF CallSet, CallMigrate, CallRecord, Probed, Crash, Goto, IInv, TypeOK, Local, CreatedInv
<1>6. ProbeInv(c)'
  BY SecretNone
     DEF CallSet, CallMigrate, CallRecord, Probed, Crash, Goto, IInv, TypeOK, Local, ProbeInv, stores
<1>7. Local(c)'
  BY <1>2, <1>4, <1>5, <1>6
     DEF Local, ProbeInv, Moving, MovingInv, CreatedInv, WritingInv, BufferInv, RotatedInv, Locked
<1>8. QED
  BY <1>1, <1>2, <1>3, <1>7, StoresAlone, Combine

LEMMA AcquireStep ==
    ASSUME IInv, NEW c \in Call, Acquire(c) \/ GiveUp(c)
    PROVE  IInv'
<1>1. TypeOK'
  <2>1. TypeOK
    BY DEF IInv
  <2>2. CASE Acquire(c)
    BY <2>1, <2>2 DEF Acquire, Free, Goto, TypeOK, Locked, stores, history
  <2>3. CASE GiveUp(c)
    BY <2>1, <2>3 DEF GiveUp, Return, Goto, TypeOK, Locked, stores, history
  <2>4. QED
    BY <2>2, <2>3
<1>2. UNCHANGED <<stores, history>> /\ created' = created
  BY DEF Acquire, GiveUp
<1>3. Frame(c)
  BY <1>2 DEF Acquire, GiveUp, Return, Goto, Frame, IInv, TypeOK, history
<1>4. pc'[c] \in {"reading", "returned"} /\ c \notin created
  BY DEF Acquire, GiveUp, Return, Goto, IInv, TypeOK, Local, CreatedInv
<1>5. ProbeInv(c)'
  BY DEF Acquire, GiveUp, Return, Goto, IInv, TypeOK, Local, ProbeInv
<1>6. Local(c)'
  BY <1>2, <1>4, <1>5
     DEF Local, ProbeInv, Moving, MovingInv, CreatedInv, WritingInv, BufferInv, RotatedInv, Locked
<1>7. QED
  BY <1>1, <1>2, <1>3, <1>6, StoresAlone, Combine

\* A call that returns leaves the stores to the others.
LEMMA ReturnStep ==
    ASSUME IInv, NEW c \in Call, Return(c), secret' \in [Call -> Secret \cup {None}],
           \A d \in Call \ {c} : secret'[d] = secret[d],
           UNCHANGED <<stores, op, created, history>>
    PROVE  IInv'
<1>1. TypeOK'
  BY DEF Return, Goto, IInv, TypeOK, Locked, stores, history
<1>2. Frame(c)
  BY DEF Return, Goto, Frame, IInv, TypeOK, history, stores
<1>3. pc'[c] = "returned" /\ (c \in created => op[c] = "migrate")
  BY DEF Return, Goto, IInv, TypeOK, Local, CreatedInv
<1>4. Local(c)'
  BY <1>3 DEF Local, ProbeInv, Moving, MovingInv, CreatedInv, WritingInv, BufferInv, RotatedInv, Locked
<1>5. QED
  BY <1>1, <1>2, <1>4, StoresAlone, Combine

\* A call that has found no credential in config.json may write it.
LEMMA ToWriteStep ==
    ASSUME IInv, NEW c \in Call, pc[c] = "reading",
           NEW f \in Config, f.apiKey = None, Readable(f),
           op[c] = "set" => BoundRows(f) = NoRows,
           op[c] # "set" /\ config # None =>
               \A x \in Category :
                   BoundRows(config)[x] # None => BoundRows(f)[x] # None,
           config # None => config.apiKey = None,
           ToWrite(c, f), UNCHANGED <<stores, op, secret, created, history>>
    PROVE  IInv'
<1>1. TypeOK'
  BY RowsFacts DEF ToWrite, Goto, IInv, TypeOK, Locked, stores, history
<1>2. Frame(c)
  BY DEF ToWrite, Goto, Frame, IInv, TypeOK, history, stores
<1>3. pc'[c] = "writing" /\ buffer'[c] = f /\ c \notin created
  BY DEF ToWrite, Goto, IInv, TypeOK, Local, CreatedInv
<1>4. config' = config /\ op' = op /\ created' = created
  BY DEF stores
<1>5. ProbeInv(c)' /\ MovingInv(c)' /\ CreatedInv(c)' /\ WritingInv(c)' /\ RotatedInv(c)'
  BY <1>3, <1>4 DEF ProbeInv, Moving, MovingInv, CreatedInv, WritingInv, RotatedInv
<1>6. BufferInv(c)'
  <2>1. BufferInv(c)' <=>
          (/\ f.apiKey = None
           /\ Readable(f)
           /\ op[c] = "set" => BoundRows(f) = NoRows
           /\ op[c] # "set" /\ config # None =>
                 \A x \in Category :
                     BoundRows(config)[x] # None => BoundRows(f)[x] # None)
    BY <1>3, <1>4, RowsFacts DEF BufferInv, Locked, BoundRows, Readable
  <2>2. QED
    BY <2>1
<1>7. Local(c)'
  BY <1>5, <1>6 DEF Local
<1>8. QED
  BY <1>1, <1>2, <1>7, StoresAlone, Combine

LEMMA ReadStep ==
    ASSUME IInv, NEW c \in Call, Read(c)
    PROVE  IInv'
<1>1. /\ pc[c] = "reading"
      /\ UNCHANGED <<stores, op, created, history>>
      /\ TypeOK
      /\ config \in Config \cup {None}
      /\ secret \in [Call -> Secret \cup {None}]
  BY DEF Read, IInv, TypeOK
<1>2. CASE ReadToRecord(c)
  <2>. DEFINE f == IF config = None THEN Fresh ELSE config
  <2>1. f \in Config
    BY <1>1, FreshFacts
  <2>2. CASE Return(c)
    BY <1>1, <1>2, <2>2, ReturnStep DEF ReadToRecord
  <2>3. CASE ~Return(c)
    <3>1. PICK x \in Category :
            /\ Readable(f) /\ f.apiKey = None
            /\ ToWrite(c, Upgraded(f, [BoundRows(f) EXCEPT ![x] = secret[c]]))
      BY <1>2, <2>3 DEF ReadToRecord
    <3>. DEFINE rows == [BoundRows(f) EXCEPT ![x] = secret[c]]
    <3>2. rows \in Rows
      BY <1>1, <2>1, BoundRowsType DEF Rows
    <3>3. op[c] = "record" /\ secret' = secret
      BY <1>2 DEF ReadToRecord
    <3>4. secret[c] # None
      BY <1>1, <3>3 DEF IInv, Local, ProbeInv
    <3>5. /\ Upgraded(f, rows) \in Config
          /\ Upgraded(f, rows).apiKey = None
          /\ Readable(Upgraded(f, rows))
          /\ BoundRows(Upgraded(f, rows)) = rows
      BY <2>1, <3>1, <3>2, UpgradedFacts
    <3>6. config # None =>
             \A y \in Category : BoundRows(config)[y] # None => rows[y] # None
      <4>1. SUFFICES ASSUME config # None, NEW y \in Category,
                            BoundRows(config)[y] # None
                     PROVE  rows[y] # None
        OBVIOUS
      <4>2. f = config /\ BoundRows(f) \in [Category -> Secret \cup {None}]
        BY <2>1, <4>1, BoundRowsType DEF Rows
      <4>3. QED
        BY <3>4, <4>1, <4>2
    <3>7. config # None => config.apiKey = None
      BY <3>1
    <3>8. ToWrite(c, Upgraded(f, rows))
      BY <3>1
    <3>. HIDE DEF f, rows
    <3>9. QED
      BY <1>1, <3>3, <3>5, <3>6, <3>7, <3>8, ToWriteStep
  <2>4. QED
    BY <2>2, <2>3
<1>3. CASE ReadToSet(c)
  <2>1. op[c] = "set" /\ secret' = secret
    BY <1>3 DEF ReadToSet
  <2>2. CASE Return(c)
    BY <1>1, <2>1, <2>2, ReturnStep
  <2>3. CASE config = None /\ Goto(c, "storing") /\ UNCHANGED <<lock, buffer>>
    <3>1. TypeOK'
      BY <1>1, <2>1, <2>3 DEF Goto, TypeOK, Locked, stores, history
    <3>2. Frame(c)
      BY <1>1, <2>1, <2>3 DEF Goto, Frame, TypeOK, history, stores
    <3>3. pc'[c] = "storing" /\ c \notin created' /\ config' = None /\ op' = op
      BY <1>1, <2>3 DEF Goto, IInv, TypeOK, Local, CreatedInv, stores
    <3>4. buffer'[c] = None
      BY <1>1, <2>3 DEF IInv, Local, ProbeInv
    <3>5. Local(c)'
      BY <2>1, <3>3, <3>4
         DEF Local, ProbeInv, Moving, MovingInv, CreatedInv, WritingInv, BufferInv, RotatedInv
    <3>6. QED
      BY <1>1, <2>1, <3>1, <3>2, <3>5, StoresAlone, Combine
  <2>4. CASE config # None /\ config.apiKey = None /\ ToWrite(c, Upgraded(config, NoRows))
    <3>1. /\ Upgraded(config, NoRows) \in Config
          /\ Upgraded(config, NoRows).apiKey = None
          /\ Readable(Upgraded(config, NoRows))
          /\ BoundRows(Upgraded(config, NoRows)) = NoRows
      BY <1>1, <2>4, RowsFacts, UpgradedFacts
    <3>2. QED
      BY <1>1, <2>1, <2>4, <3>1, ToWriteStep
  <2>5. QED
    BY <1>3, <2>2, <2>3, <2>4 DEF ReadToSet
<1>4. CASE ReadToMigrate(c)
  <2>1. op[c] = "migrate"
    BY <1>4 DEF ReadToMigrate
  <2>2. CASE Return(c) /\ UNCHANGED secret
    BY <1>1, <2>2, ReturnStep
  <2>3. CASE /\ config # None /\ Readable(WithoutKey(config)) /\ config.apiKey = None
             /\ ToWrite(c, Upgraded(config, BoundRows(config)))
             /\ UNCHANGED secret
    <3>1. /\ Upgraded(config, BoundRows(config)) \in Config
          /\ Upgraded(config, BoundRows(config)).apiKey = None
          /\ Readable(Upgraded(config, BoundRows(config)))
          /\ BoundRows(Upgraded(config, BoundRows(config))) = BoundRows(config)
      BY <1>1, <2>3, BoundRowsType, UpgradedFacts
    <3>2. QED
      BY <1>1, <2>1, <2>3, <3>1, ToWriteStep
  <2>4. CASE /\ config # None /\ config.apiKey # None
             /\ secret' = [secret EXCEPT ![c] = config.apiKey]
             /\ buffer' = [buffer EXCEPT ![c] =
                    Upgraded(WithoutKey(config), BoundRows(config))]
             /\ Goto(c, "comparing")
             /\ UNCHANGED lock
    <3>. DEFINE f == Upgraded(WithoutKey(config), BoundRows(config))
    <3>1. /\ f \in Config /\ f # None
          /\ f.apiKey = None
          /\ Readable(f)
          /\ BoundRows(f) = BoundRows(config)
      BY <1>1, <2>4, BoundRowsType, WithoutKeyFacts, UpgradedFacts, RowsFacts
    <3>2. config.apiKey \in Secret
      BY <1>1, <2>4 DEF Config
    <3>. DEFINE s == config.apiKey
    <3>0. /\ buffer' = [buffer EXCEPT ![c] = f]
          /\ secret' = [secret EXCEPT ![c] = s]
          /\ Goto(c, "comparing")
          /\ UNCHANGED lock
          /\ s \in Secret
      BY <2>4, <3>2
    <3>. HIDE DEF f, s
    <3>3. TypeOK'
      BY <1>1, <2>1, <3>0, <3>1 DEF Goto, TypeOK, Locked, stores, history
    <3>4. Frame(c)
      BY <1>1, <3>0 DEF Goto, Frame, TypeOK, history, stores
    <3>5. /\ pc'[c] = "comparing" /\ op'[c] = "migrate" /\ c \notin created
          /\ secret'[c] = config.apiKey /\ buffer'[c] = f /\ config' = config
          /\ created' = created
      BY <1>1, <2>1, <3>0 DEF s, Goto, IInv, TypeOK, Local, CreatedInv, stores
    <3>6. ProbeInv(c)' /\ MovingInv(c)' /\ CreatedInv(c)' /\ WritingInv(c)' /\ RotatedInv(c)'
      BY <2>4, <3>1, <3>5 DEF ProbeInv, Moving, MovingInv, CreatedInv, WritingInv, RotatedInv
    <3>7. BufferInv(c)'
      BY <3>1, <3>5 DEF BufferInv, Readable, BoundRows
    <3>8. QED
      BY <1>1, <3>3, <3>4, <3>6, <3>7, StoresAlone, Combine DEF Local
  <2>5. QED
    BY <1>4, <2>2, <2>3, <2>4 DEF ReadToMigrate
<1>5. QED
  BY <1>2, <1>3, <1>4 DEF Read

\* A step from label to label that leaves what the call holds alone.
LEMMA GotoStep ==
    ASSUME IInv, NEW c \in Call, NEW label, pc[c] \in Locked, Goto(c, label),
           label \in Locked \ {"reading"},
           label = "writing" => buffer[c] # None,
           UNCHANGED <<lock, buffer, op, secret, config, legacy>>,
           created' \in {created, created \cup {c}},
           keychain' \in Secret \cup {None}, discarded' \in BOOLEAN,
           MovingInv(c)', CreatedInv(c)', WritingInv(c)', BufferInv(c)', RotatedInv(c)',
           SecretSurvives'
    PROVE  IInv'
<1>1. TypeOK'
  BY DEF Goto, IInv, TypeOK, Locked
<1>2. Frame(c)
  BY DEF Goto, Frame, IInv, TypeOK
<1>3. ProbeInv(c)'
  BY DEF Goto, IInv, TypeOK, ProbeInv, Locked
<1>4. LegacyInv' /\ ConfigStaysReadable'
  BY DEF IInv, LegacyInv, ConfigStaysReadable, Readable
<1>5. QED
  BY <1>1, <1>2, <1>3, <1>4, Combine DEF Local

LEMMA CompareStep ==
    ASSUME IInv, NEW c \in Call, Compare(c)
    PROVE  IInv'
<1>1. /\ pc[c] = "comparing" /\ Local(c) /\ TypeOK
      /\ UNCHANGED <<keychain, config, legacy, discarded, op, secret>>
  BY DEF Compare, IInv, stores, history
<1>2. CASE Return(c) /\ UNCHANGED created
  BY <1>1, <1>2, ReturnStep DEF Compare, stores, history, TypeOK
<1>3. CASE /\ UNCHANGED <<lock, buffer>>
           /\ \/ keychain = None /\ created' = created \cup {c} /\ Goto(c, "storing")
              \/ keychain = secret[c] /\ created' = created /\ Goto(c, "verifying")
  <2>2. op[c] = "migrate" /\ c \notin created
    BY <1>1 DEF Local, CreatedInv
  <2>3. \/ pc'[c] = "storing" /\ keychain = None /\ c \in created'
        \/ pc'[c] = "verifying" /\ c \notin created'
    BY <1>1, <1>3, <2>2 DEF Goto, TypeOK
  <2>4. MovingInv(c)' /\ CreatedInv(c)' /\ WritingInv(c)' /\ RotatedInv(c)'
    BY <1>1, <1>3, <2>2, <2>3
       DEF Local, Moving, MovingInv, CreatedInv, WritingInv, RotatedInv
  <2>5. BufferInv(c)'
    BY <1>1, <1>3 DEF Local, BufferInv, Locked, Readable
  <2>6. SecretSurvives'
    BY <1>1 DEF IInv, SecretSurvives, Has
  <2>7. CASE Goto(c, "storing")
    BY <1>1, <1>3, <2>4, <2>5, <2>6, <2>7, GotoStep DEF Locked, TypeOK
  <2>8. CASE Goto(c, "verifying")
    BY <1>1, <1>3, <2>4, <2>5, <2>6, <2>8, GotoStep DEF Locked, TypeOK
  <2>9. QED
    BY <1>3, <2>7, <2>8
<1>4. QED
  BY <1>2, <1>3 DEF Compare

LEMMA StoreStep ==
    ASSUME IInv, NEW c \in Call, Store(c)
    PROVE  IInv'
<1>1. /\ pc[c] = "storing" /\ Local(c) /\ TypeOK /\ SecretSurvives /\ LegacyInv
      /\ keychain' \in {keychain, secret[c]}
      /\ discarded' = (discarded \/ (op[c] = "set" /\ keychain' # keychain))
      /\ UNCHANGED <<lock, buffer, op, secret, config, legacy, created>>
  BY DEF Store, IInv
<1>2. PICK label \in {"verifying", "rolling back"} :
        Goto(c, label) /\ (label = "rolling back" => op[c] = "migrate")
  BY DEF Store
<1>3. pc'[c] = label
  BY <1>1, <1>2 DEF Goto, TypeOK
<1>4. MovingInv(c)' /\ CreatedInv(c)' /\ WritingInv(c)' /\ RotatedInv(c)'
  BY <1>1, <1>2, <1>3 DEF Local, Moving, MovingInv, CreatedInv, WritingInv, RotatedInv
<1>5. BufferInv(c)'
  BY <1>1 DEF Local, BufferInv, Locked, Readable
<1>6. SecretSurvives'
  <2>1. CASE op[c] = "migrate"
    BY <1>1, <2>1 DEF Local, Moving, MovingInv, LegacyInv, SecretSurvives, Has
  <2>2. CASE op[c] = "set"
    BY <1>1, <2>2 DEF SecretSurvives, Has
  <2>3. QED
    BY <1>1, <2>1, <2>2 DEF Local, CreatedInv
<1>7. keychain' \in Secret \cup {None} /\ discarded' \in BOOLEAN
  BY <1>1 DEF TypeOK
<1>8. QED
  BY <1>1, <1>2, <1>4, <1>5, <1>6, <1>7, GotoStep DEF Locked

LEMMA VerifyStep ==
    ASSUME IInv, NEW c \in Call, Verify(c)
    PROVE  IInv'
<1>1. /\ pc[c] = "verifying" /\ Local(c) /\ TypeOK
      /\ UNCHANGED <<keychain, config, legacy, discarded, op, secret, created>>
  BY DEF Verify, IInv, stores, history
<1>2. CASE Return(c)
  BY <1>1, <1>2, ReturnStep DEF stores, history, TypeOK
<1>3. CASE Goto(c, "writing") /\ UNCHANGED <<lock, buffer>> /\ keychain = secret[c] /\ op[c] # "set"
  <2>1. op[c] = "migrate" /\ pc'[c] = "writing" /\ buffer[c] # None
    BY <1>1, <1>3 DEF Goto, TypeOK, Local, CreatedInv, Moving, MovingInv
  <2>2. MovingInv(c)' /\ CreatedInv(c)' /\ WritingInv(c)' /\ RotatedInv(c)'
    BY <1>1, <1>3, <2>1 DEF Local, Moving, MovingInv, CreatedInv, WritingInv, RotatedInv
  <2>3. BufferInv(c)'
    BY <1>1, <1>3 DEF Local, BufferInv, Locked, Readable
  <2>4. SecretSurvives'
    BY <1>1 DEF IInv, SecretSurvives, Has
  <2>5. QED
    BY <1>1, <1>3, <2>1, <2>2, <2>3, <2>4, GotoStep DEF Locked, TypeOK
<1>4. CASE Goto(c, "rolling back") /\ UNCHANGED <<lock, buffer>> /\ c \in created
  <2>1. op[c] = "migrate" /\ pc'[c] = "rolling back"
    BY <1>1, <1>4 DEF Goto, TypeOK, Local, CreatedInv
  <2>2. MovingInv(c)' /\ CreatedInv(c)' /\ WritingInv(c)' /\ RotatedInv(c)'
    BY <1>1, <1>4, <2>1 DEF Local, Moving, MovingInv, CreatedInv, WritingInv, RotatedInv
  <2>3. BufferInv(c)'
    BY <1>1, <1>4 DEF Local, BufferInv, Locked, Readable
  <2>4. SecretSurvives'
    BY <1>1 DEF IInv, SecretSurvives, Has
  <2>5. QED
    BY <1>1, <1>4, <2>2, <2>3, <2>4, GotoStep DEF Locked, TypeOK
<1>5. QED
  BY <1>2, <1>3, <1>4 DEF Verify

LEMMA RollBackStep ==
    ASSUME IInv, NEW c \in Call, RollBack(c)
    PROVE  IInv'
<1>1. /\ pc[c] = "rolling back" /\ Local(c) /\ TypeOK /\ LegacyInv /\ SecretSurvives
      /\ keychain' \in {keychain, None}
      /\ Return(c)
      /\ UNCHANGED <<config, legacy, discarded, op, secret, created>>
  BY DEF RollBack, IInv, history
<1>2. op[c] = "migrate" /\ config # None /\ config.apiKey = legacy
  BY <1>1 DEF Local, CreatedInv, Moving, MovingInv, LegacyInv
<1>3. TypeOK'
  BY <1>1 DEF Return, Goto, TypeOK, Locked
<1>4. Frame(c)
  BY <1>1 DEF Return, Goto, Frame, TypeOK, Locked
<1>5. pc'[c] = "returned"
  BY <1>1 DEF Return, Goto, TypeOK
<1>6. Local(c)'
  BY <1>1, <1>2, <1>5
     DEF Local, ProbeInv, Moving, MovingInv, CreatedInv, WritingInv, BufferInv, RotatedInv, Locked
<1>7. LegacyInv' /\ ConfigStaysReadable'
  BY <1>1 DEF IInv, LegacyInv, ConfigStaysReadable, Readable
<1>8. SecretSurvives'
  BY <1>1, <1>2 DEF SecretSurvives, Has
<1>9. QED
  BY <1>3, <1>4, <1>6, <1>7, <1>8, Combine

\* What is in config.json after a write.
LEMMA CommitFacts ==
    ASSUME IInv, NEW c \in Call, pc[c] = "writing", config' = buffer[c],
           UNCHANGED <<keychain, legacy, discarded>>
    PROVE  /\ buffer[c] \in Config
           /\ buffer[c].apiKey = None
           /\ LegacyInv' /\ ConfigStaysReadable' /\ SecretSurvives'
           /\ op[c] = "set" => BoundRows(config') = NoRows
<1>1. TypeOK /\ Local(c) /\ LegacyInv /\ SecretSurvives
  BY DEF IInv
<1>2. buffer[c] \in Config /\ buffer[c] # None
  BY <1>1 DEF TypeOK
<1>3. /\ buffer[c].apiKey = None
      /\ Readable(buffer[c])
      /\ op[c] = "set" => BoundRows(buffer[c]) = NoRows
  BY <1>1, <1>2 DEF Local, BufferInv, Locked
<1>4. LegacyInv'
  BY <1>2, <1>3 DEF LegacyInv
<1>5. ConfigStaysReadable'
  BY <1>3 DEF ConfigStaysReadable, Readable
<1>6. SecretSurvives'
  <2>1. SUFFICES ASSUME legacy # None, ~discarded
                 PROVE  keychain = legacy
    BY DEF SecretSurvives
  <2>2. config # None /\ config.apiKey \in {None, legacy}
    BY <1>1, <2>1 DEF LegacyInv
  <2>3. CASE config.apiKey = None
    BY <1>1, <2>1, <2>3 DEF SecretSurvives, Has
  <2>4. CASE config.apiKey = legacy
    BY <1>1, <2>1, <2>2, <2>4 DEF Local, WritingInv
  <2>5. QED
    BY <2>2, <2>3, <2>4
<1>7. QED
  BY <1>2, <1>3, <1>4, <1>5, <1>6

LEMMA WriteStep ==
    ASSUME IInv, NEW c \in Call, Write(c) \/ WriteNotSynced(c)
    PROVE  IInv'
<1>1. /\ pc[c] = "writing" /\ Local(c) /\ TypeOK
      /\ config' = buffer[c]
      /\ UNCHANGED <<keychain, legacy, discarded, op, secret, created>>
  BY DEF Write, WriteNotSynced, IInv, history
<1>2. \/ Return(c)
      \/ op[c] = "set" /\ Goto(c, "storing") /\ UNCHANGED <<lock, buffer>>
  BY DEF Write, WriteNotSynced, Written
<1>3. /\ LegacyInv' /\ ConfigStaysReadable' /\ SecretSurvives'
      /\ buffer[c] \in Config
      /\ op[c] = "set" => BoundRows(config') = NoRows
  BY <1>1, CommitFacts
<1>4. TypeOK'
  BY <1>1, <1>2, <1>3 DEF Return, Goto, TypeOK, Locked
<1>5. Frame(c)
  BY <1>1, <1>2 DEF Return, Goto, Frame, TypeOK, Locked
<1>6. /\ pc'[c] \in {"returned", "storing"}
      /\ pc'[c] = "storing" => op[c] = "set" /\ buffer' = buffer
  BY <1>1, <1>2 DEF Return, Goto, TypeOK
<1>7. ProbeInv(c)' /\ MovingInv(c)' /\ CreatedInv(c)' /\ WritingInv(c)' /\ RotatedInv(c)'
  BY <1>1, <1>3, <1>6
     DEF Local, ProbeInv, Moving, MovingInv, CreatedInv, WritingInv, RotatedInv
<1>8. BufferInv(c)'
  BY <1>1, <1>6 DEF Local, BufferInv, Locked, Readable
<1>9. QED
  BY <1>3, <1>4, <1>5, <1>7, <1>8, Combine DEF Local

LEMMA WriteFailsStep ==
    ASSUME IInv, NEW c \in Call, WriteFails(c)
    PROVE  IInv'
<1>1. /\ pc[c] = "writing" /\ Local(c) /\ TypeOK
      /\ UNCHANGED <<keychain, config, legacy, discarded, op, secret, created>>
  BY DEF WriteFails, IInv, stores, history
<1>2. CASE Return(c)
  BY <1>1, <1>2, ReturnStep DEF stores, history, TypeOK
<1>3. CASE c \in created /\ Goto(c, "rolling back") /\ UNCHANGED <<lock, buffer>>
  <2>1. op[c] = "migrate" /\ pc'[c] = "rolling back" /\ buffer[c] # None
    BY <1>1, <1>3 DEF Goto, TypeOK, Local, CreatedInv
  <2>2. MovingInv(c)' /\ CreatedInv(c)' /\ WritingInv(c)' /\ RotatedInv(c)'
    BY <1>1, <1>3, <2>1 DEF Local, Moving, MovingInv, CreatedInv, WritingInv, RotatedInv
  <2>3. BufferInv(c)'
    BY <1>1, <1>3 DEF Local, BufferInv, Locked, Readable
  <2>4. SecretSurvives'
    BY <1>1 DEF IInv, SecretSurvives, Has
  <2>5. QED
    BY <1>1, <1>3, <2>2, <2>3, <2>4, GotoStep DEF Locked, TypeOK
<1>4. QED
  BY <1>2, <1>3 DEF WriteFails, Undo

-----------------------------------------------------------------------------
(* The theorems                                                            *)

LEMMA InitIInv == Init => IInv
<1>. SUFFICES ASSUME Init PROVE IInv
  OBVIOUS
<1>2. config \in Config \cup {None} /\ (config # None => config.apiKey \in Secret \cup {None})
  BY DEF Init, Config
<1>3. TypeOK
  BY <1>2 DEF Init, TypeOK, Locked
<1>4. LegacyInv /\ ConfigStaysReadable /\ SecretSurvives
  BY DEF Init, LegacyInv, ConfigStaysReadable, SecretSurvives, Readable, Has
<1>5. ASSUME NEW c \in Call PROVE Local(c)
  BY DEF Init, Local, ProbeInv, Moving, MovingInv, CreatedInv, WritingInv, BufferInv, RotatedInv, Locked
<1>6. QED
  BY <1>3, <1>4, <1>5 DEF IInv

LEMMA NextIInv ==
    ASSUME IInv, [Next]_vars
    PROVE  IInv'
<1>1. CASE UNCHANGED vars
  <2>1. UNCHANGED <<keychain, config, lock, pc, op, secret, buffer, created, legacy, discarded>>
    BY <1>1 DEF vars
  <2>2. TypeOK' /\ LegacyInv' /\ ConfigStaysReadable' /\ SecretSurvives'
    BY <2>1 DEF IInv, TypeOK, LegacyInv, ConfigStaysReadable, SecretSurvives, Readable, Has
  <2>3. ASSUME NEW c \in Call PROVE Local(c)'
    <3>1. Local(c)
      BY DEF IInv
    <3>2. ProbeInv(c)' /\ MovingInv(c)' /\ CreatedInv(c)' /\ WritingInv(c)' /\ RotatedInv(c)'
      BY <2>1, <3>1 DEF Local, ProbeInv, Moving, MovingInv, CreatedInv, WritingInv, RotatedInv
    <3>3. BufferInv(c)'
      BY <2>1, <3>1 DEF Local, BufferInv, Readable
    <3>4. QED
      BY <3>2, <3>3 DEF Local
  <2>4. QED
    BY <2>2, <2>3 DEF IInv
<1>2. CASE Remove
  BY <1>2, RemoveStep
<1>3. ASSUME NEW c \in Call, Step(c) \/ Crash(c) PROVE IInv'
  BY <1>3, OutsideStep, AcquireStep, ReadStep, CompareStep, StoreStep, VerifyStep,
     RollBackStep, WriteStep, WriteFailsStep DEF Step
<1>4. QED
  BY <1>1, <1>2, <1>3 DEF Next

LEMMA Invariance == Spec => []IInv
<1>1. Init => IInv
  BY InitIInv
<1>2. IInv /\ [Next]_vars => IInv'
  BY NextIInv
<1>3. QED
  BY <1>1, <1>2, PTL DEF Spec

\* The types; and one call at a time is in a step that needs config.json.lock.
THEOREM CredentialTypeCorrect == Spec => []TypeOK
<1>1. IInv => TypeOK
  BY DEF IInv
<1>2. QED
  BY <1>1, Invariance, PTL

\* Whatever fails or dies in migrate_legacy, the credential of config.json is
\* still there or in the keychain, until the user removes or replaces it.
THEOREM CredentialSurvives == Spec => []SecretSurvives
<1>1. IInv => SecretSurvives
  BY DEF IInv
<1>2. QED
  BY <1>1, Invariance, PTL

\* Whatever order of calls and failures, record and set can read config.json.
THEOREM ConfigurationReadable == Spec => []ConfigStaysReadable
<1>1. IInv => ConfigStaysReadable
  BY DEF IInv
<1>2. QED
  BY <1>1, Invariance, PTL

-----------------------------------------------------------------------------
(* The action properties                                                   *)

\* Only the call that steps moves.
LEMMA OneMoves ==
    ASSUME TypeOK, NEW c \in Call, Step(c) \/ Crash(c), NEW d \in Call, d # c
    PROVE  pc'[d] = pc[d]
<1>1. PICK label : Goto(c, label)
  <2>1. CASE CallSet(c) \/ CallMigrate(c) \/ CallRecord(c) \/ Probed(c) \/ Crash(c)
    BY <2>1 DEF CallSet, CallMigrate, CallRecord, Probed, Crash
  <2>2. CASE Acquire(c) \/ GiveUp(c)
    BY <2>2 DEF Acquire, GiveUp, Return
  <2>3. CASE Read(c)
    BY <2>3 DEF Read, ReadToRecord, ReadToSet, ReadToMigrate, ToWrite, Return
  <2>4. CASE Compare(c) \/ Store(c) \/ Verify(c) \/ RollBack(c)
    BY <2>4 DEF Compare, Store, Verify, RollBack, Return
  <2>5. CASE Write(c) \/ WriteNotSynced(c) \/ WriteFails(c)
    BY <2>5 DEF Write, WriteNotSynced, WriteFails, Written, Undo, Return
  <2>6. QED
    BY <2>1, <2>2, <2>3, <2>4, <2>5 DEF Step
<1>2. QED
  BY <1>1 DEF Goto, TypeOK

\* Which steps change the stores.
LEMMA WhoChanges ==
    ASSUME NEW c \in Call, Step(c) \/ Crash(c)
    PROVE  /\ keychain' # keychain => Store(c) \/ RollBack(c)
           /\ config' # config => Write(c) \/ WriteNotSynced(c)
<1>1. CASE CallSet(c) \/ CallMigrate(c) \/ CallRecord(c) \/ Probed(c) \/ Crash(c)
  BY <1>1 DEF CallSet, CallMigrate, CallRecord, Probed, Crash, stores
<1>2. CASE Acquire(c) \/ GiveUp(c) \/ Read(c) \/ Compare(c) \/ Verify(c) \/ WriteFails(c)
  BY <1>2 DEF Acquire, GiveUp, Read, Compare, Verify, WriteFails, stores
<1>3. CASE Store(c) \/ RollBack(c)
  BY <1>3 DEF Store, RollBack
<1>4. CASE Write(c) \/ WriteNotSynced(c)
  BY <1>4 DEF Write, WriteNotSynced
<1>5. QED
  BY <1>1, <1>2, <1>3, <1>4 DEF Step

\* A migration touches the item that it created and nothing else.
LEMMA SparesStep ==
    ASSUME IInv, [Next]_vars, NEW c \in Call, op[c] = "migrate", pc'[c] # pc[c],
           keychain # None, keychain' # keychain
    PROVE  c \in created /\ keychain = secret[c]
<1>1. TypeOK /\ Local(c)
  BY DEF IInv
<1>2. PICK d \in Call : Step(d) \/ Crash(d)
  BY DEF Next, Remove, vars
<1>3. d = c
  BY <1>1, <1>2, OneMoves
<1>4. Store(c) \/ RollBack(c)
  BY <1>2, <1>3, WhoChanges
<1>5. QED
  BY <1>1, <1>4 DEF Store, RollBack, Local, CreatedInv

\* migrate_legacy never changes or removes a keychain item it did not create,
\* neither when it stores nor when it rolls back.
THEOREM CredentialMigrationSparesOthers == Spec => MigrationSparesOthers
<1>1. IInv /\ [Next]_vars =>
        [\A c \in Call :
            op[c] = "migrate" /\ pc'[c] # pc[c] /\ keychain # None
            /\ keychain' # keychain
            => c \in created /\ keychain = secret[c]]_vars
  BY SparesStep
<1>2. QED
  BY <1>1, Invariance, PTL DEF Spec, MigrationSparesOthers

\* A write drops rows only if it is a rotation's.
LEMMA KeptStep ==
    ASSUME IInv, [Next]_vars, NEW x \in Category,
           config # None, BoundRows(config)[x] # None, BoundRows(config')[x] = None
    PROVE  \E c \in Call : op[c] = "set" /\ pc[c] = "writing" /\ pc'[c] # "writing"
<1>1. config' # config
  OBVIOUS
<1>2. PICK c \in Call : Step(c) \/ Crash(c)
  BY <1>1 DEF Next, Remove, vars
<1>3. Write(c) \/ WriteNotSynced(c)
  BY <1>1, <1>2, WhoChanges
<1>4. pc[c] = "writing" /\ config' = buffer[c] /\ TypeOK /\ Local(c)
  BY <1>3 DEF Write, WriteNotSynced, IInv
<1>5. pc'[c] # "writing"
  BY <1>3, <1>4 DEF Write, WriteNotSynced, Written, Return, Goto, TypeOK
<1>6. op[c] = "set"
  BY <1>4 DEF Local, BufferInv, Locked, TypeOK
<1>7. QED
  BY <1>4, <1>5, <1>6

\* An approval row disappears only in the write of a rotation: concurrent
\* records and migrations lose none.
THEOREM CredentialObservationsAreKept == Spec => ObservationsAreKept
<1>1. IInv /\ [Next]_vars =>
        [\A x \in Category :
            config # None /\ BoundRows(config)[x] # None
            /\ BoundRows(config')[x] = None
            => \E c \in Call : op[c] = "set" /\ pc[c] = "writing" /\ pc'[c] # "writing"]_vars
  BY KeptStep
<1>2. QED
  BY <1>1, Invariance, PTL DEF Spec, ObservationsAreKept

\* set changes the keychain only when config.json has no approval row left.
THEOREM CredentialRotationStartsClean == Spec => RotationStartsClean
<1>1. IInv =>
        [\A c \in Call :
            op[c] = "set" /\ pc[c] = "storing" /\ keychain' # keychain
            /\ pc'[c] # "storing" /\ config # None
            => BoundRows(config) = NoRows]_vars
  BY DEF IInv, Local, RotatedInv
<1>2. QED
  BY <1>1, Invariance, PTL DEF Spec, RotationStartsClean
=============================================================================
