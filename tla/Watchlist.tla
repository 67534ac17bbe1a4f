----------------------------- MODULE Watchlist ------------------------------
(***************************************************************************)
(* The saved watchlist: watchlist.rs, add_blocking, remove_blocking and    *)
(* list_blocking over watchlist.json, with the two formats it reads and    *)
(* the one it writes.  A mutation holds the directory lock, of which only  *)
(* what AbstractLock promises is used; list takes no lock.                 *)
(*                                                                         *)
(* A call whose future is dropped leaves its blocking worker running: it   *)
(* goes on as modelled, and nobody hears its result.                       *)
(***************************************************************************)
EXTENDS Sublist, SequencesExt

CONSTANTS
    WlCall,     \* calls in flight, of any process
    WlIsin,     \* ISINs
    WlName,     \* security codes and names
    WlMax,      \* WATCHLIST_MAX_ENTRIES
    WlMutations \* bound: how many mutations the calls start in all

ASSUME WatchlistConstants == WlMax \in Nat \ {0} /\ WlMutations \in Nat

\* The largest list in the written form fits the bound of a later read: 115
\* bytes of punctuation and fixed fields an entry, and 256 characters of name
\* of up to six bytes each ("\u0001"), within 16 MiB.
ASSUME WATCHLIST_READ_BOUND == 10000 * (115 + 6 * 256) + 64 <= 16 * 1024 * 1024

VARIABLES
    wlFile,     \* watchlist.json: its form and entries
    wlLock,     \* the calls whose guard is alive
    wlPc,       \* where each call is
    wlOp,       \* what it was asked
    wlRead,     \* what it read under the lock, or [form |-> "none"]
    wlStarted   \* mutations started so far

wlVars == <<wlFile, wlLock, wlPc, wlOp, wlRead, wlStarted>>

Lock == INSTANCE AbstractLock WITH Process <- WlCall, holder <- wlLock

\* The entries that add can be given.
Entry == [isin : WlIsin, name : WlName]

\* A selector is compared with every field.
WlOperation ==
    [kind : {"add"}, entry : Entry] \cup
    [kind : {"remove"}, selector : WlIsin \cup WlName]

Unread == [form |-> "none", entries |-> <<>>]

File(form, entries) == [form |-> form, entries |-> entries]

\* decode_persisted: at most WATCHLIST_MAX_ENTRIES, no ISIN twice.
Decodes(entries) ==
    /\ Len(entries) <= WlMax
    /\ IsInjective([i \in DOMAIN entries |-> entries[i].isin])

Readable(file) == file.form \in {"v0", "v1"} /\ Decodes(file.entries)

\* read_locked: an absent file is an empty list of the current form.
Observed(file) == IF file.form = "absent" THEN File("v1", <<>>) ELSE file

WatchlistInit ==
    /\ wlFile \in {File("absent", <<>>), File("invalid", <<>>)} \cup
                  {File(form, entries) :
                      form \in {"v0", "v1"},
                      entries \in {s \in SeqOf(Entry, WlMax) : Decodes(s)}}
    /\ wlLock = {}
    /\ wlPc = [c \in WlCall |-> "idle"]
    /\ wlOp = [c \in WlCall |-> CHOOSE o \in WlOperation : TRUE]
    /\ wlRead = [c \in WlCall |-> Unread]
    /\ wlStarted = 0

-----------------------------------------------------------------------------
(* add_blocking, remove_blocking                                           *)

HasIsin(entries, isin) == \E i \in DOMAIN entries : entries[i].isin = isin

Selects(selector, entry) == selector \in {entry.isin, entry.name}

HasRoom(entries) == Len(entries) < WlMax

\* The list that o makes of entries; adding what is there changes nothing.
Applied(o, entries) ==
    CASE o.kind = "add" /\ HasIsin(entries, o.entry.isin) -> entries
      [] o.kind = "add" /\ ~HasIsin(entries, o.entry.isin) ->
            Append(entries, o.entry)
      [] o.kind = "remove" ->
            ItemsAt(entries,
                {i \in DOMAIN entries : ~Selects(o.selector, entries[i])})

WlStart(c) ==
    /\ wlPc[c] = "idle"
    /\ wlStarted < WlMutations
    /\ \E o \in WlOperation : wlOp' = [wlOp EXCEPT ![c] = o]
    /\ wlPc' = [wlPc EXCEPT ![c] = "locking"]
    /\ wlStarted' = wlStarted + 1
    /\ UNCHANGED <<wlFile, wlLock, wlRead>>

\* Variant: the call goes on after the lock timed out.
WlAcquireAnyway(c) ==
    /\ wlPc[c] = "locking"
    /\ wlPc' = [wlPc EXCEPT ![c] = "reading"]
    /\ UNCHANGED <<wlFile, wlLock, wlOp, wlRead, wlStarted>>

\* acquire_lock: the guard, or an error once LOCK_TIMEOUT has passed.
WlAcquire(c) ==
    /\ wlPc[c] = "locking"
    /\ \/ /\ Lock!Take(c)
          /\ wlPc' = [wlPc EXCEPT ![c] = "reading"]
       \/ /\ wlPc' = [wlPc EXCEPT ![c] = "idle"]
          /\ UNCHANGED wlLock
    /\ UNCHANGED <<wlFile, wlOp, wlRead, wlStarted>>

\* The call returns and drops its guard, if it has one.
WlReturn(c) ==
    /\ wlPc' = [wlPc EXCEPT ![c] = "idle"]
    /\ wlRead' = [wlRead EXCEPT ![c] = Unread]
    /\ wlLock' = wlLock \ {c}

\* read_locked: a list that does not decode is an error.
WlReadLocked(c) ==
    /\ wlPc[c] = "reading"
    /\ IF Readable(Observed(wlFile))
       THEN /\ wlRead' = [wlRead EXCEPT ![c] = Observed(wlFile)]
            /\ wlPc' = [wlPc EXCEPT ![c] = "deciding"]
            /\ UNCHANGED wlLock
       ELSE WlReturn(c)
    /\ UNCHANGED <<wlFile, wlOp, wlStarted>>

\* A legacy list is always cut over, a current one only when it changes; a
\* full list takes no entry, and is not cut over on the way.
WlDecide(c) ==
    /\ wlPc[c] = "deciding"
    /\ LET o == wlOp[c]
           entries == wlRead[c].entries
           refused == /\ o.kind = "add"
                      /\ ~HasIsin(entries, o.entry.isin)
                      /\ ~HasRoom(entries)
           changed == Applied(o, entries) # entries
       IN  IF ~refused /\ (wlRead[c].form = "v0" \/ changed)
           THEN /\ wlPc' = [wlPc EXCEPT ![c] = "writing"]
                /\ UNCHANGED <<wlLock, wlRead>>
           ELSE WlReturn(c)
    /\ UNCHANGED <<wlFile, wlOp, wlStarted>>

\* PersistedV1::from_entries
Written(c) == File("v1", Applied(wlOp[c], wlRead[c].entries))

\* write_v1: the rename may fail, or commit although its sync fails; either
\* way the caller is told that the write failed.
WlWrite(c) ==
    /\ wlPc[c] = "writing"
    /\ wlFile' \in {wlFile, Written(c)}
    /\ WlReturn(c)
    /\ UNCHANGED <<wlOp, wlStarted>>

\* The process dies; its guard is gone once the lock has been recovered.
WlDie(c) ==
    /\ wlPc[c] # "idle"
    /\ WlReturn(c)
    /\ UNCHANGED <<wlFile, wlOp, wlStarted>>

WatchlistNext ==
    \E c \in WlCall :
        \/ WlStart(c) \/ WlAcquire(c) \/ WlReadLocked(c) \/ WlDecide(c)
        \/ WlWrite(c) \/ WlDie(c)

WatchlistSpec == WatchlistInit /\ [][WatchlistNext]_wlVars

-----------------------------------------------------------------------------
(* Properties                                                              *)

\* What a write leaves is its operation applied to the list that was there when
\* it wrote, in the current form, whoever wrote in the meantime.
WritesApplyToCurrent ==
    [][wlFile' # wlFile =>
          \E c \in WlCall :
              /\ wlPc[c] = "writing"
              /\ wlFile' = File("v1", Applied(wlOp[c], Observed(wlFile).entries))]_wlVars

\* A list that could be read still can, however the additions race at the
\* maximum.
StaysReadable ==
    [][Readable(Observed(wlFile)) => Readable(Observed(wlFile'))]_wlVars

\* No mutation undoes another, and none leaves what the next cannot read.
MutationsCompose == WritesApplyToCurrent /\ StaysReadable
=============================================================================
