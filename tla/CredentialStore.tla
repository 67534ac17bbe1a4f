--------------------------- MODULE CredentialStore ---------------------------
(***************************************************************************)
(* The credential and the approval observations: credential.rs and         *)
(* approval.rs.  Two stores are kept in step without a transaction: the    *)
(* operating system's keychain, which knows no lock, and config.json,      *)
(* which is read and rewritten under config.json.lock.  Before migration   *)
(* config.json holds the credential itself (apiKey).                       *)
(*                                                                         *)
(* The lock is modelled by what PlainLock shows of it.  A call is a        *)
(* process that runs one operation; any of its steps may fail or be its    *)
(* last.                                                                   *)
(***************************************************************************)
EXTENDS Naturals

CONSTANTS
    Call,      \* the calls
    Secret,    \* credentials, and their fingerprints
    Category,  \* ApprovalCategory
    None,      \* no file, no credential, no row
    Unbound    \* the rows of the previous format

ASSUME SecretNone == None \notin Secret

\* An approval row is the credential it was observed with (credentialId).
Rows == [Category -> Secret \cup {None}]

NoRows == [x \in Category |-> None]

\* ClassifiedConfig: rows of the previous format have no credentialId.
Config == [version : {0, 1}, apiKey : Secret \cup {None}, rows : Rows \cup {Unbound}]

ASSUME ConfigNone == None \notin Config /\ Unbound \notin Rows

VARIABLES
    keychain,   \* the credential in the keychain, or None
    config,     \* config.json, or None
    lock,       \* who holds config.json.lock
    pc,         \* where a call is
    op,         \* what it was called for
    secret,     \* the credential it works with
    buffer,     \* the configuration it is about to write
    created,    \* the migrations that put the credential in the keychain
    legacy,     \* history: the credential config.json had in the beginning
    discarded   \* history: has the user removed or replaced the credential?

vars == <<keychain, config, lock, pc, op, secret, buffer, created, legacy, discarded>>

stores  == <<keychain, config>>
history == <<legacy, discarded>>

Op == {"set", "migrate", "record"}

\* The steps under the lock.
Locked == {"reading", "writing", "storing", "comparing", "verifying", "rolling back"}

\* The types; a call in a locked step holds the lock, and what it writes is
\* complete.
TypeOK ==
    /\ keychain \in Secret \cup {None}
    /\ config \in Config \cup {None}
    /\ lock \in Call \cup {None}
    /\ pc \in [Call -> {"idle", "probing", "waiting", "returned", "dead"} \cup Locked]
    /\ op \in [Call -> Op \cup {None}]
    /\ secret \in [Call -> Secret \cup {None}]
    /\ buffer \in [Call -> Config \cup {None}]
    /\ created \subseteq Call
    /\ legacy \in Secret \cup {None}
    /\ discarded \in BOOLEAN
    /\ \A c \in Call : /\ pc[c] \in Locked => lock = c
                       /\ pc[c] = "writing" => buffer[c] # None

\* What an earlier version, or this one, may have left.
Init ==
    /\ keychain \in Secret \cup {None}
    /\ config \in {None} \cup
          {f \in Config : f.version = 1 => f.apiKey = None /\ f.rows # Unbound}
    /\ lock = None
    /\ pc = [c \in Call |-> "idle"]
    /\ op = [c \in Call |-> None]
    /\ secret = [c \in Call |-> None]
    /\ buffer = [c \in Call |-> None]
    /\ created = {}
    /\ legacy = IF config = None THEN None ELSE config.apiKey
    /\ discarded = FALSE

-----------------------------------------------------------------------------
\* Helpers.

\* classify_config: a version 1 file has bound rows and no credential.
Readable(f) == f.version = 1 => f.apiKey = None /\ f.rows # Unbound

\* Rows without a credentialId are not carried over.
BoundRows(f) == IF f.rows = Unbound THEN NoRows ELSE f.rows

\* upgrade_root; the caller has dealt with apiKey.
Upgraded(f, rows) == [f EXCEPT !.version = 1, !.rows = rows]

Fresh == [version |-> 0, apiKey |-> None, rows |-> Unbound]

Goto(c, label) == pc' = [pc EXCEPT ![c] = label]

\* The call returns, well or with an error; its lock guard is dropped.
Return(c) ==
    /\ Goto(c, "returned")
    /\ lock' = IF lock = c THEN None ELSE lock
    /\ buffer' = [buffer EXCEPT ![c] = None]

-----------------------------------------------------------------------------
(* The calls                                                               *)

\* CredentialManager::remove: the keychain only, and no lock.
Remove ==
    /\ keychain # None
    /\ keychain' = None
    /\ discarded' = TRUE
    /\ UNCHANGED <<config, lock, pc, op, secret, buffer, created, legacy>>

CallSet(c) ==
    /\ pc[c] = "idle"
    /\ op' = [op EXCEPT ![c] = "set"]
    /\ \E s \in Secret : secret' = [secret EXCEPT ![c] = s]
    /\ Goto(c, "waiting")
    /\ UNCHANGED <<stores, lock, buffer, created, history>>

CallMigrate(c) ==
    /\ pc[c] = "idle"
    /\ op' = [op EXCEPT ![c] = "migrate"]
    /\ Goto(c, "waiting")
    /\ UNCHANGED <<stores, lock, secret, buffer, created, history>>

\* check_approval: the credential is resolved (an argument, the environment or
\* the keychain), and the provider is asked.
CallRecord(c) ==
    /\ pc[c] = "idle"
    /\ op' = [op EXCEPT ![c] = "record"]
    /\ \/ /\ \E s \in Secret : secret' = [secret EXCEPT ![c] = s]
          /\ Goto(c, "probing")
       \/ /\ keychain # None
          /\ secret' = [secret EXCEPT ![c] = keychain]
          /\ Goto(c, "probing")
       \/ \* no credential, or none in time
          /\ Goto(c, "returned")
          /\ UNCHANGED secret
    /\ UNCHANGED <<stores, lock, buffer, created, history>>

\* The probe has an outcome; it is recorded even if the caller cancelled.
Probed(c) ==
    /\ pc[c] = "probing"
    /\ Goto(c, "waiting")
    /\ UNCHANGED <<stores, lock, op, secret, buffer, created, history>>

-----------------------------------------------------------------------------
(* acquire_config_lock                                                     *)

Free == \A c \in Call : lock = c => pc[c] = "dead"

\* Variant: a contended lock is taken over after the timeout.
AcquireAnyway(c) ==
    /\ pc[c] = "waiting"
    /\ lock' = c
    /\ Goto(c, "reading")
    /\ UNCHANGED <<stores, op, secret, buffer, created, history>>

Acquire(c) ==
    /\ pc[c] = "waiting"
    /\ Free
    /\ lock' = c
    /\ Goto(c, "reading")
    /\ UNCHANGED <<stores, op, secret, buffer, created, history>>

\* The wait for the lock times out, or a read fails.
GiveUp(c) ==
    /\ pc[c] \in {"waiting", "reading"}
    /\ Return(c)
    /\ UNCHANGED <<stores, op, secret, created, history>>

-----------------------------------------------------------------------------
(* Reading config.json                                                     *)

ToWrite(c, f) ==
    /\ buffer' = [buffer EXCEPT ![c] = f]
    /\ Goto(c, "writing")
    /\ UNCHANGED lock

\* Variant: an observation is recorded beside a credential not yet migrated.
RecordBeside(c) ==
    /\ op[c] = "record"
    /\ LET f == IF config = None THEN Fresh ELSE config IN
          \/ /\ Readable(f)
             /\ \E x \in Category :
                   ToWrite(c, Upgraded(f, [BoundRows(f) EXCEPT ![x] = secret[c]]))
          \/ ~Readable(f) /\ Return(c)
    /\ UNCHANGED secret

\* record_blocking: refused while the credential is not migrated.
ReadToRecord(c) ==
    /\ op[c] = "record"
    /\ LET f == IF config = None THEN Fresh ELSE config IN
          \/ /\ Readable(f) /\ f.apiKey = None
             /\ \E x \in Category :
                   ToWrite(c, Upgraded(f, [BoundRows(f) EXCEPT ![x] = secret[c]]))
          \/ ~Readable(f) /\ Return(c)
          \/ f.apiKey # None /\ Return(c)
    /\ UNCHANGED secret

\* clear_for_rotation_locked, before the keychain is touched.
ReadToSet(c) ==
    /\ op[c] = "set"
    /\ \/ config = None /\ Goto(c, "storing") /\ UNCHANGED <<lock, buffer>>
       \/ /\ config # None
          /\ IF Readable(config) /\ config.apiKey = None
             THEN ToWrite(c, Upgraded(config, NoRows))
             ELSE Return(c)
    /\ UNCHANGED secret

WithoutKey(f) == [f EXCEPT !.apiKey = None]

\* migrate_legacy_blocking takes the credential out before it looks at the
\* rest; without one only the format is upgraded.
ReadToMigrate(c) ==
    /\ op[c] = "migrate"
    /\ \/ /\ config = None
          /\ Return(c)
          /\ UNCHANGED secret
       \/ /\ config # None /\ ~Readable(WithoutKey(config))
          /\ Return(c)
          /\ UNCHANGED secret
       \/ /\ config # None /\ Readable(WithoutKey(config)) /\ config.apiKey = None
          /\ IF config.version = 1
             THEN Return(c)
             ELSE ToWrite(c, Upgraded(config, BoundRows(config)))
          /\ UNCHANGED secret
       \/ /\ config # None /\ Readable(WithoutKey(config)) /\ config.apiKey # None
          /\ secret' = [secret EXCEPT ![c] = config.apiKey]
          /\ buffer' = [buffer EXCEPT ![c] =
                Upgraded(WithoutKey(config), BoundRows(config))]
          /\ Goto(c, "comparing")
          /\ UNCHANGED lock

Read(c) ==
    /\ pc[c] = "reading"
    /\ ReadToRecord(c) \/ ReadToSet(c) \/ ReadToMigrate(c)
    /\ UNCHANGED <<stores, op, created, history>>

-----------------------------------------------------------------------------
(* The keychain                                                            *)

\* migrate: create the item, use the same one, or give way to another.
Compare(c) ==
    /\ pc[c] = "comparing"
    /\ \/ /\ keychain = None
          /\ created' = created \cup {c}
          /\ Goto(c, "storing")
          /\ UNCHANGED <<lock, buffer>>
       \/ /\ keychain = secret[c]
          /\ Goto(c, "verifying")
          /\ UNCHANGED <<lock, buffer, created>>
       \/ \* another item, or the read fails
          /\ Return(c)
          /\ UNCHANGED created
    /\ UNCHANGED <<stores, op, secret, history>>

\* backend.set: an error does not tell whether the item was stored.
Store(c) ==
    /\ pc[c] = "storing"
    /\ keychain' \in {keychain, secret[c]}
    /\ \/ Goto(c, "verifying")
       \/ op[c] = "migrate" /\ Goto(c, "rolling back")
    /\ discarded' = (discarded \/ (op[c] = "set" /\ keychain' # keychain))
    /\ UNCHANGED <<config, lock, op, secret, buffer, created, legacy>>

\* verify_backend reads the item back; the read may fail, too.
Verify(c) ==
    /\ pc[c] = "verifying"
    /\ \/ /\ keychain = secret[c]
          /\ IF op[c] = "set"
             THEN Return(c)
             ELSE Goto(c, "writing") /\ UNCHANGED <<lock, buffer>>
       \/ IF c \in created
          THEN Goto(c, "rolling back") /\ UNCHANGED <<lock, buffer>>
          ELSE Return(c)
    /\ UNCHANGED <<stores, op, secret, created, history>>

\* rollback_created_backend: remove the item if it is still ours.
RollBack(c) ==
    /\ pc[c] = "rolling back"
    /\ \/ keychain = secret[c] /\ keychain' = None
       \/ UNCHANGED keychain
    /\ Return(c)
    /\ UNCHANGED <<config, op, secret, created, history>>

-----------------------------------------------------------------------------
(* Writing config.json                                                     *)

\* Where a call goes from its write.
Written(c) ==
    IF op[c] = "set"
    THEN Goto(c, "storing") /\ UNCHANGED <<lock, buffer>>
    ELSE Return(c)

Undo(c) ==
    IF c \in created
    THEN Goto(c, "rolling back") /\ UNCHANGED <<lock, buffer>>
    ELSE Return(c)

Write(c) ==
    /\ pc[c] = "writing"
    /\ config' = buffer[c]
    /\ Written(c)
    /\ UNCHANGED <<keychain, op, secret, created, history>>

\* Variant: every failed write is undone.
UndoCommitted(c) ==
    /\ pc[c] = "writing"
    /\ config' = buffer[c]
    /\ Undo(c)
    /\ UNCHANGED <<keychain, op, secret, created, history>>

\* The rename succeeded, the sync of the directory did not: an error, but
\* nothing is undone.
WriteNotSynced(c) ==
    /\ pc[c] = "writing"
    /\ config' = buffer[c]
    /\ Return(c)
    /\ UNCHANGED <<keychain, op, secret, created, history>>

WriteFails(c) ==
    /\ pc[c] = "writing"
    /\ Undo(c)
    /\ UNCHANGED <<stores, op, secret, created, history>>

-----------------------------------------------------------------------------
\* The process dies; its lock is recovered.
Crash(c) ==
    /\ pc[c] \notin {"returned", "dead"}
    /\ Goto(c, "dead")
    /\ UNCHANGED <<stores, lock, op, secret, buffer, created, history>>

Step(c) ==
    \/ CallSet(c) \/ CallMigrate(c) \/ CallRecord(c) \/ Probed(c)
    \/ Acquire(c) \/ GiveUp(c) \/ Read(c)
    \/ Compare(c) \/ Store(c) \/ Verify(c) \/ RollBack(c)
    \/ Write(c) \/ WriteNotSynced(c) \/ WriteFails(c)

Next == Remove \/ \E c \in Call : Step(c) \/ Crash(c)

Spec == Init /\ [][Next]_vars

-----------------------------------------------------------------------------
(* Properties                                                              *)

Has(f, s) == f # None /\ f.apiKey = s

\* migrations.yaml: the credential of config.json survives every failure and
\* death of a migration, in config.json or in the keychain, unless the user
\* removes or replaces it.
SecretSurvives ==
    legacy # None /\ ~discarded => Has(config, legacy) \/ keychain = legacy

\* migrations.yaml: a migration never modifies a keychain item that it did not
\* create.
MigrationSparesOthers ==
    [][\A c \in Call :
          op[c] = "migrate" /\ pc'[c] # pc[c] /\ keychain # None
          /\ keychain' # keychain
          => c \in created /\ keychain = secret[c]]_vars

\* No order of calls and failures leaves a configuration that record and set
\* refuse from then on, like a credential beside rows of version 1.
ConfigStaysReadable == config # None => Readable(config)

\* An observation is lost to a rotation only: not to an observation of another
\* category at the same time, and not to a migration.
ObservationsAreKept ==
    [][\A x \in Category :
          config # None /\ BoundRows(config)[x] # None
          /\ BoundRows(config')[x] = None
          => \E c \in Call : op[c] = "set" /\ pc[c] = "writing" /\ pc'[c] # "writing"]_vars

\* A credential is replaced only when no observation is left of the one before.
RotationStartsClean ==
    [][\A c \in Call :
          op[c] = "set" /\ pc[c] = "storing" /\ keychain' # keychain
          /\ pc'[c] # "storing" /\ config # None
          => BoundRows(config) = NoRows]_vars
=============================================================================
