------------------------------- MODULE Upgrade ------------------------------
(***************************************************************************)
(* `krx upgrade`: upgrade.rs over one global installation that pnpm owns.  *)
(* Runs of it take no lock, so two may overlap, while releases come out    *)
(* and the archive of the first installation goes away.  pnpm is external: *)
(* a command of it is one step that succeeds or keeps what was there.      *)
(*                                                                         *)
(* Version 0 was installed by hand from an archive outside the archive     *)
(* directory; a later one is named by its archive there.                   *)
(***************************************************************************)
EXTENDS Naturals

CONSTANTS
    UpRun,        \* runs of krx upgrade
    UpMaxVersion, \* bound: releases published after version 0
    UpNone        \* no version

ASSUME UpgradeConstants == UpMaxVersion \in Nat

VARIABLES
    upRecords,   \* pnpm records the archive it installed from (pnpm 10)
    upReleased,  \* the latest release: version, and whether for this target
    upInstalled, \* what pnpm lists: version and content, or UpNone
    upSource,    \* the archive that pnpm recorded
    upOriginal,  \* the archive of version 0 still exists
    upArchives,  \* content of the archive of each version, or UpNone
    upPc,        \* where each run is
    upRunning,   \* the version of the running executable
    upPackage,   \* package.source: the archive recorded when it looked
    upLatest,    \* the release it found
    upRaced      \* ghost: two releases were on their way at once

upVars == <<upRecords, upReleased, upInstalled, upSource, upOriginal,
            upArchives, upPc, upRunning, upPackage, upLatest, upRaced>>

Version == 0..UpMaxVersion

\* A download is the package of the release, or not: cut short, altered, or
\* the package of another version.
Content == {"package", "other"}

Package(version, content) == [version |-> version, content |-> content]

ASSUME UpgradeNone ==
    /\ UpNone \notin Version
    /\ UpNone \notin Content
    /\ UpNone \notin [version : Version, content : Content]

UpgradeInit ==
    /\ upRecords \in BOOLEAN
    /\ upReleased = [version |-> 0, complete |-> TRUE]
    /\ upInstalled = Package(0, "package")
    /\ upSource = 0
    /\ upOriginal = TRUE
    /\ upArchives = [v \in Version |-> UpNone]
    /\ upPc = [r \in UpRun |-> "idle"]
    /\ upRunning = [r \in UpRun |-> 0]
    /\ upPackage = [r \in UpRun |-> UpNone]
    /\ upLatest = [r \in UpRun |-> UpNone]
    /\ upRaced = FALSE

-----------------------------------------------------------------------------
(* pnpm and the world                                                      *)

ArchiveExists(v) == IF v = 0 THEN upOriginal ELSE upArchives[v] # UpNone

\* pnpm 10 reads every archive it recorded again.
PnpmCanAdd(v) ==
    /\ ArchiveExists(v)
    /\ upRecords /\ upInstalled # UpNone => ArchiveExists(upSource)

PnpmAdd(v) ==
    /\ PnpmCanAdd(v)
    /\ upInstalled' = Package(v, upArchives[v])
    /\ upSource' = v

PublishRelease ==
    /\ upReleased.version < UpMaxVersion
    /\ \E complete \in BOOLEAN :
          upReleased' = [version |-> upReleased.version + 1,
                         complete |-> complete]
    /\ UNCHANGED <<upRecords, upInstalled, upSource, upOriginal, upArchives,
                   upPc, upRunning, upPackage, upLatest, upRaced>>

LoseOriginal ==
    /\ upOriginal
    /\ upOriginal' = FALSE
    /\ UNCHANGED <<upRecords, upReleased, upInstalled, upSource, upArchives,
                   upPc, upRunning, upPackage, upLatest, upRaced>>

\* A run in flight holds another release than v.
OtherRelease(v) == \E r \in UpRun : upLatest[r] \notin {UpNone, v}

\* The command that a failed run prints.
UserAdds ==
    /\ upInstalled = UpNone
    /\ \E v \in Version \ {0} :
          /\ PnpmAdd(v)
          /\ upRaced' = (upRaced \/ OtherRelease(v))
    /\ UNCHANGED <<upRecords, upReleased, upOriginal, upArchives, upPc,
                   upRunning, upPackage, upLatest>>

-----------------------------------------------------------------------------
(* The run                                                                 *)

Advance(r, to) == upPc' = [upPc EXCEPT ![r] = to]

Goes(r, to) == Advance(r, to) /\ UNCHANGED <<upRunning, upPackage, upLatest>>

Finish(r) ==
    /\ Advance(r, "idle")
    /\ upRunning' = [upRunning EXCEPT ![r] = 0]
    /\ upPackage' = [upPackage EXCEPT ![r] = UpNone]
    /\ upLatest' = [upLatest EXCEPT ![r] = UpNone]

BeginUpgrade(r) ==
    /\ upPc[r] = "idle"
    /\ upInstalled # UpNone
    /\ Advance(r, "locating")
    /\ upRunning' = [upRunning EXCEPT ![r] = upInstalled.version]
    /\ UNCHANGED <<upRecords, upReleased, upInstalled, upSource, upOriginal,
                   upArchives, upPackage, upLatest, upRaced>>

\* installed_package: pnpm lists the running package, and where it came from;
\* it may also fail to.
LocatePackage(r) ==
    /\ upPc[r] = "locating"
    /\ \/ /\ upInstalled # UpNone /\ upInstalled.version = upRunning[r]
          /\ upPackage' = [upPackage EXCEPT ![r] =
                               IF upRecords THEN upSource ELSE UpNone]
          /\ Advance(r, "resolving")
          /\ UNCHANGED <<upRunning, upLatest>>
       \/ Finish(r)
    /\ UNCHANGED <<upRecords, upReleased, upInstalled, upSource, upOriginal,
                   upArchives, upRaced>>

\* latest_release: go on, or stop: no answer, nothing newer, no archive for
\* this target, or --check.
ResolveRelease(r) ==
    /\ upPc[r] = "resolving"
    /\ \/ /\ upReleased.version > upRunning[r] /\ upReleased.complete
          /\ upLatest' = [upLatest EXCEPT ![r] = upReleased.version]
          /\ upRaced' = (upRaced \/ OtherRelease(upReleased.version))
          /\ Advance(r, "downloading")
          /\ UNCHANGED <<upRunning, upPackage>>
       \/ Finish(r) /\ UNCHANGED upRaced
    /\ UNCHANGED <<upRecords, upReleased, upInstalled, upSource, upOriginal,
                   upArchives>>

\* download_verified: the digest, equal in both lists, and the package.
Verified(content) == content = "package"

\* persist_archive: an atomic replacement under the name of the release.
DownloadAndPersist(r) ==
    /\ upPc[r] = "downloading"
    /\ \/ \E content \in Content :
             /\ Verified(content)
             /\ upArchives' = [upArchives EXCEPT ![upLatest[r]] = content]
             /\ Goes(r, "installing")
       \/ Finish(r) /\ UNCHANGED upArchives
    /\ UNCHANGED <<upRecords, upReleased, upInstalled, upSource, upOriginal,
                   upRaced>>

\* Variant: the package is removed and installed again after any failure.
RemoveAnyway(r) == Goes(r, "removing")

\* The error is returned, except that a package whose own archive is gone is
\* removed first.
InstallFailed(r) ==
    IF upPackage[r] = UpNone \/ ArchiveExists(upPackage[r])
    THEN Finish(r)
    ELSE Goes(r, "removing")

InstallRelease(r) ==
    /\ upPc[r] = "installing"
    /\ \/ /\ PnpmAdd(upLatest[r])
          /\ Goes(r, "confirming")
       \/ InstallFailed(r) /\ UNCHANGED <<upInstalled, upSource>>
    /\ UNCHANGED <<upRecords, upReleased, upOriginal, upArchives, upRaced>>

\* A failed removal may have unlinked the package.
RemovePackage(r) ==
    /\ upPc[r] = "removing"
    /\ upInstalled' \in {upInstalled, UpNone}
    /\ \/ /\ upInstalled' = UpNone
          /\ Goes(r, "reinstalling")
       \/ Finish(r)
    /\ UNCHANGED <<upRecords, upReleased, upSource, upOriginal, upArchives,
                   upRaced>>

ReinstallRelease(r) ==
    /\ upPc[r] = "reinstalling"
    /\ \/ /\ PnpmAdd(upLatest[r])
          /\ Goes(r, "confirming")
       \/ Finish(r) /\ UNCHANGED <<upInstalled, upSource>>
    /\ UNCHANGED <<upRecords, upReleased, upOriginal, upArchives, upRaced>>

\* confirm_installed: pnpm lists the release, and its executable says so; the
\* list or the executable may also fail to answer.
ConfirmInstalled(r) ==
    /\ upPc[r] = "confirming"
    /\ \/ /\ upInstalled # UpNone /\ upInstalled.version = upLatest[r]
          /\ Goes(r, "cleaning")
       \/ Finish(r)
    /\ UNCHANGED <<upRecords, upReleased, upInstalled, upSource, upOriginal,
                   upArchives, upRaced>>

\* Variant: the archive just installed is not spared.
RemoveAllArchives(r) ==
    /\ upPc[r] = "cleaning"
    /\ \E gone \in SUBSET Version :
          upArchives' = [v \in Version |->
                            IF v \in gone THEN UpNone ELSE upArchives[v]]
    /\ Finish(r)
    /\ UNCHANGED <<upRecords, upReleased, upInstalled, upSource, upOriginal,
                   upRaced>>

\* remove_other_archives, of which any removal may fail.
RemoveOtherArchives(r) ==
    /\ upPc[r] = "cleaning"
    /\ \E gone \in SUBSET (Version \ {upLatest[r]}) :
          upArchives' = [v \in Version |->
                            IF v \in gone THEN UpNone ELSE upArchives[v]]
    /\ Finish(r)
    /\ UNCHANGED <<upRecords, upReleased, upInstalled, upSource, upOriginal,
                   upRaced>>

\* The process is killed between two steps.
AbandonUpgrade(r) ==
    /\ upPc[r] # "idle"
    /\ Finish(r)
    /\ UNCHANGED <<upRecords, upReleased, upInstalled, upSource, upOriginal,
                   upArchives, upRaced>>

UpgradeNext ==
    \/ PublishRelease \/ LoseOriginal \/ UserAdds
    \/ \E r \in UpRun :
          \/ BeginUpgrade(r) \/ LocatePackage(r) \/ ResolveRelease(r)
          \/ DownloadAndPersist(r) \/ InstallRelease(r) \/ RemovePackage(r)
          \/ ReinstallRelease(r) \/ ConfirmInstalled(r)
          \/ RemoveOtherArchives(r) \/ AbandonUpgrade(r)

UpgradeSpec == UpgradeInit /\ [][UpgradeNext]_upVars

-----------------------------------------------------------------------------
(* Properties                                                              *)

\* The archive that pnpm will read again at the next global install is there:
\* a run that fails, is killed, or runs beside another one for the same
\* release never removes it, nor leaves anything but the verified package
\* under its name.  Runs for different releases can.
RecordedArchiveStays ==
    ~upRaced /\ upInstalled # UpNone /\ upSource # 0 =>
        upArchives[upSource] = "package"

\* krx goes away only where pnpm 10 could not have replaced it, its archive
\* being gone, or where another run replaced it after this one had looked at
\* the archive; and it never gives way to an older version.  Runs for different
\* releases can break both: one may bring back the archive that another one
\* missed, and is about to remove krx for, or install what it found earlier.
NoLossNoDowngrade ==
    [][upInstalled # UpNone =>
          IF upInstalled' = UpNone
          THEN /\ upRecords
               /\ \E r \in UpRun :
                     /\ upPc[r] = "removing"
                     /\ \/ ~ArchiveExists(upSource) \/ upPackage[r] # upSource
                        \/ upRaced
          ELSE upRaced \/ upInstalled'.version >= upInstalled.version]_upVars
=============================================================================
