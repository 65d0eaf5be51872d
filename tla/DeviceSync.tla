----------------------------- MODULE DeviceSync -----------------------------
(***************************************************************************)
(* A mobile device that follows the task changes of its user: it pages     *)
(* through the feed from its cursor (sync_since) or replaces its cache by  *)
(* a snapshot (full_snapshot), while commands and clean-ups commit.        *)
(*                                                                         *)
(* Both read the revision and the data in separate statements.  A revision *)
(* is taken under the lock of the user's row of application_sync_state,    *)
(* held until COMMIT, so revisions are committed in their order.           *)
(***************************************************************************)
EXTENDS TaskCommands

CONSTANT PageSize    \* changes in a page, 500 at most in the code

ASSUME PageSizeAssumption == PageSize \in Nat \ {0}

VARIABLE device

allvars == <<vars, device>>

\* cache: the tasks the device shows; cursor: the revision it has applied;
\* revision: the one the request has read; snapshot: the tasks it has read.
Device == [pc: {"idle", "paging", "snapshot", "built"}, cursor: Nat, revision: Nat,
           cache: [Tasks -> Row], snapshot: [Tasks -> Row]]

Nothing == [t \in Tasks |-> Unborn]

DeviceTypeOK == TypeOK /\ device \in Device

DeviceInit ==
  /\ Init
  /\ device = [pc |-> "idle", cursor |-> 0, revision |-> 0, cache |-> Nothing,
               snapshot |-> Nothing]

Least(m, n) == IF m < n THEN m ELSE n

\* sync_since reads the current revision.
SyncSince ==
  /\ device.pc = "idle"
  /\ device' = [device EXCEPT !.pc = "paging", !.revision = Len(feed)]
  /\ UNCHANGED vars

\* Mutant of Checkpoint: the device jumps to the current revision.
CheckpointCurrent == device.revision

\* Mutant of Checkpoint: the last change of a page is asked for again.
CheckpointBehind ==
  IF device.cursor < device.revision
  THEN Least(device.cursor + PageSize, device.revision) - 1 ELSE device.cursor

\* Mutant of Checkpoint: a page is counted from the end.
CheckpointFromEnd == device.revision - PageSize

\* The last revision of the page.
Checkpoint == Least(device.cursor + PageSize, device.revision)

\* A task after the changes of a page.
Latest(t, from, to) ==
  LET mine == {i \in from + 1..to : feed[i].task = t}
  IN IF mine = {} THEN device.cache[t]
     ELSE feed[CHOOSE i \in mine : \A j \in mine : i >= j].row

\* It reads the changes after the cursor; the device applies the page and
\* keeps its checkpoint.
ApplyPage ==
  /\ device.pc = "paging"
  /\ device' = [device EXCEPT
       !.pc = "idle", !.revision = 0, !.cursor = Checkpoint,
       !.cache = [t \in Tasks |-> Latest(t, device.cursor,
                                        Least(device.cursor + PageSize, device.revision))]]
  /\ UNCHANGED vars

\* full_snapshot reads the revision, the tasks, and the revision again.
SnapshotBegin ==
  /\ device.pc = "idle"
  /\ device' = [device EXCEPT !.pc = "snapshot", !.revision = Len(feed)]
  /\ UNCHANGED vars

SnapshotRead ==
  /\ device.pc = "snapshot"
  /\ device' = [device EXCEPT !.pc = "built", !.snapshot = row]
  /\ UNCHANGED vars

\* Mutant of Unmoved: the second read of the revision is dropped.
UnmovedUnchecked == TRUE

Unmoved == Len(feed) = device.revision

\* An unchanged revision makes the snapshot the device's cache; otherwise the
\* attempt is repeated, and given up after the third.
SnapshotEnd ==
  /\ device.pc = "built"
  /\ device' = IF Unmoved
               THEN [device EXCEPT !.pc = "idle", !.revision = 0, !.cursor = device.revision,
                                   !.cache = device.snapshot, !.snapshot = Nothing]
               ELSE [device EXCEPT !.pc = "idle", !.revision = 0, !.snapshot = Nothing]
  /\ UNCHANGED vars

Sync == SyncSince \/ ApplyPage \/ SnapshotBegin \/ SnapshotRead \/ SnapshotEnd

DeviceNext == (Next /\ UNCHANGED device) \/ Sync

DeviceSpec == DeviceInit /\ [][DeviceNext]_allvars

-----------------------------------------------------------------------------
(* Properties *)

\* A task the server does not have, or no longer, is not shown.
Shown(r) == IF Exists(r) THEN r ELSE Unborn

\* A device that has applied every change shows every task as it is.
CaughtUpIsCurrent ==
  device.pc = "idle" /\ device.cursor = Len(feed) =>
    \A t \in Tasks : Shown(device.cache[t]) = Shown(row[t])

\* While has_more says so a device asks for the next page, and it repeats what
\* failed; users and workers may stop at any time.
FairDeviceSpec == DeviceSpec /\ WF_allvars(Sync)

\* A device that keeps asking shows every task as it is in the end.
Converges ==
  <>[](/\ device.cursor = Len(feed)
       /\ \A t \in Tasks : Shown(device.cache[t]) = Shown(row[t]))

\* A device never shows an older version of a task than before, and a deleted
\* task never comes back.
NeverGoesBack ==
  [][\A t \in Tasks :
       /\ device'.cache[t].version >= device.cache[t].version
       /\ device.cache[t].status = "gone" => device'.cache[t].status = "gone"]_allvars
=============================================================================
