---------------------------- MODULE DfuInstall ----------------------------
(***************************************************************************)
(* Installing a firmware bundle on an OpenTitan RoT with two slots each    *)
(* for ROM_EXT and application: libhoth_dfu_update() and                   *)
(* libhoth_dfu_install_firmware() of protocol/dfu_hostcmd.c, the version   *)
(* comparisons of protocol/opentitan_version.c, and htool dfu update.  One *)
(* update writes the staging slots in chunks of one DFU session, completes *)
(* the session, which restarts the chip, and reconnects; the install does  *)
(* as many updates as the slots' versions call for and checks the result.  *)
(* Host commands fail with or without having been carried out, the chip    *)
(* resets by itself, and the user runs the command again.                  *)
(*                                                                         *)
(* ROM_EXT versions compare by (security, major, minor): a total order,    *)
(* for which numbers stand.  Application versions compare by (major,       *)
(* minor); their security version only counts against the RoT's minimum.   *)
(***************************************************************************)
EXTENDS Integers

CONSTANTS
    RomExts,    \* ROM_EXT versions: numbers
    Apps,       \* application versions
    SecVers,    \* application security versions: numbers
    Chunks,     \* DFU_WRITE commands an image takes
    Torn        \* a slot that holds a part of an image

DfuAssumption ==
    /\ RomExts \subseteq Nat /\ SecVers \subseteq Nat
    /\ Torn \notin Apps
    /\ Chunks \in Nat \ {0}

VARIABLES
    rom_ext, app,   \* the RoT: [slots, booted] of each
    session,        \* bytes (chunks) of the open DFU session, or -1
    min_sec_ver,    \* bl0_min_sec_ver
    pc,
    image,          \* the bundle's versions: [rom_ext, app, sec]
    args,           \* [restart, force]
    resp,           \* what GET_VERSION returned last
    update_cnt,
    i,              \* the install's loop counter
    sent,           \* bytes_sent, in chunks
    faulty,         \* history: something failed, or the chip reset, meanwhile
    result

rotVars == <<rom_ext, app, session, min_sec_ver>>
callVars == <<image, args, resp, update_cnt, i, sent>>
vars == <<rotVars, pc, callVars, faulty, result>>

\* A slot that holds part of a ROM_EXT counts as older than any version.
TornRomExt == -1

Other(slot) == 1 - slot
Booted(part) == part.slots[part.booted]
Staged(part) == part.slots[Other(part.booted)]

NoArgs == [restart |-> FALSE, force |-> FALSE]
NoImage == [rom_ext |-> TornRomExt, app |-> Torn, sec |-> 0]
NoResp == [rom_ext |-> [slots |-> [s \in {0, 1} |-> TornRomExt], booted |-> 0],
           app |-> [slots |-> [s \in {0, 1} |-> Torn], booted |-> 0]]

\* The ROM boots the newer ROM_EXT.
Init ==
    /\ rom_ext \in [slots : [{0, 1} -> RomExts], booted : {0, 1}]
    /\ Booted(rom_ext) >= Staged(rom_ext)
    /\ app \in [slots : [{0, 1} -> Apps], booted : {0, 1}]
    /\ session = -1
    /\ min_sec_ver \in SecVers
    /\ pc = "idle"
    /\ image = NoImage /\ args = NoArgs /\ resp = NoResp
    /\ update_cnt = 0 /\ i = 0 /\ sent = 0
    /\ faulty = FALSE /\ result = "none"

-----------------------------------------------------------------------------
(* The RoT                                                                 *)

Rebooted ==
    /\ rom_ext' = [rom_ext EXCEPT !.booted =
                      IF Staged(rom_ext) >= Booted(rom_ext) THEN Other(@) ELSE @]
    /\ session' = -1

\* DFU_WRITE: the first chunk opens a session, the last one completes the
\* staging slots.
WriteCarriedOut ==
    /\ session' = sent + 1
    /\ rom_ext' = [rom_ext EXCEPT !.slots[Other(rom_ext.booted)] =
                      IF sent + 1 = Chunks THEN image.rom_ext ELSE TornRomExt]
    /\ app' = [app EXCEPT !.slots[Other(app.booted)] =
                      IF sent + 1 = Chunks THEN image.app ELSE Torn]
    /\ UNCHANGED min_sec_ver

\* DFU_COMPLETE for the open session: the chip restarts into the new firmware
\* if asked to.
CompleteCarriedOut ==
    /\ IF args.restart
       THEN Rebooted /\ app' = [app EXCEPT !.booted = Other(@)]
       ELSE session' = -1 /\ UNCHANGED <<rom_ext, app>>
    /\ UNCHANGED min_sec_ver

\* The chip resets by itself: an open session is lost.
RotResets ==
    /\ pc # "idle"
    /\ Rebooted
    /\ faulty' = TRUE
    /\ UNCHANGED <<app, min_sec_ver, pc, callVars, result>>

-----------------------------------------------------------------------------
(* Version comparisons: opentitan_version.c                                *)

\* libhoth_ot_check_update_successful()
CheckUpdateSuccessful(r) ==
    /\ Booted(r.app) = image.app
    /\ Booted(r.rom_ext) >= image.rom_ext

\* libhoth_update_complete()
UpdateComplete(r) ==
    /\ Booted(r.app) = image.app
    /\ Staged(r.app) = image.app
    /\ Booted(r.rom_ext) >= image.rom_ext
    /\ Staged(r.rom_ext) = image.rom_ext

\* Mutant: one update for any need.
DfuUpdateCountOnce(r) ==
    IF \/ image.app \notin {Booted(r.app)} \intersect {Staged(r.app)}
       \/ Booted(r.rom_ext) < image.rom_ext
       \/ Staged(r.rom_ext) < image.rom_ext
    THEN 1 ELSE 0

\* dfu_update_count()
DfuUpdateCount(r) ==
    IF Booted(r.app) # image.app \/ Booted(r.rom_ext) < image.rom_ext THEN 2
    ELSE IF Staged(r.app) # image.app \/ Staged(r.rom_ext) < image.rom_ext THEN 1
    ELSE 0

Version == [rom_ext |-> rom_ext, app |-> app]

-----------------------------------------------------------------------------
(* htool_dfu_update(), libhoth_dfu_install_firmware()                      *)

Return(r) ==
    /\ pc' = "returned"
    /\ result' = r

\* --force updates twice, without a look at the versions.
Start(img, a) ==
    /\ pc = "idle"
    /\ image' = img
    /\ args' = a
    /\ update_cnt' = IF a.force THEN 2 ELSE 0
    /\ i' = 0 /\ sent' = 0
    /\ faulty' = FALSE
    /\ pc' = IF a.force THEN "write" ELSE "version"
    /\ UNCHANGED <<rotVars, resp, result>>

\* Mutant: the slots are not looked at again.
AfterLoopUnchecked(r, cnt, k) ==
    IF k < cnt THEN pc' = "write" /\ UNCHANGED result ELSE Return("ok")

\* From the check of an update result to the next one or the end.
AfterLoop(r, cnt, k) ==
    IF k < cnt THEN pc' = "write" /\ UNCHANGED result
    ELSE Return(IF UpdateComplete(r) THEN "ok" ELSE "mismatch")

GetVersion ==
    /\ pc = "version"
    /\ resp' = Version
    /\ IF image.sec < min_sec_ver
       THEN Return("refused") /\ UNCHANGED update_cnt
       ELSE /\ update_cnt' = DfuUpdateCount(Version)
            /\ AfterLoop(Version, update_cnt', 0)
    /\ UNCHANGED <<rotVars, image, args, i, sent, faulty>>

\* A version command fails.
GetVersionFails ==
    /\ pc \in {"version", "check"}
    /\ Return("error")
    /\ faulty' = TRUE
    /\ UNCHANGED <<rotVars, callVars>>

\* Only the first chunk may open a session.
SessionAccepts == sent = 0 \/ session = sent

DfuWrite ==
    /\ pc = "write"
    /\ SessionAccepts
    /\ WriteCarriedOut
    /\ sent' = sent + 1
    /\ pc' = IF sent' = Chunks THEN "complete" ELSE "write"
    /\ UNCHANGED <<image, args, resp, update_cnt, i, faulty, result>>

\* Mutant: a failed write does not end the update.
DfuWriteFailsIgnored ==
    /\ pc = "write"
    /\ \/ UNCHANGED rotVars
       \/ SessionAccepts /\ WriteCarriedOut
    /\ pc' = "complete"
    /\ faulty' = TRUE
    /\ UNCHANGED <<callVars, result>>

DfuWriteFails ==
    /\ pc = "write"
    /\ \/ UNCHANGED rotVars
       \/ SessionAccepts /\ WriteCarriedOut
    /\ Return("error")
    /\ faulty' = TRUE
    /\ UNCHANGED callVars

\* A failing DFU_COMPLETE is ignored "as the chip may have already restarted".
DfuComplete(ok) ==
    /\ pc = "complete"
    /\ IF session # -1 /\ ok THEN CompleteCarriedOut ELSE UNCHANGED rotVars
    /\ faulty' = (faulty \/ ~ok \/ session = -1)
    /\ pc' = "reconnect"
    /\ UNCHANGED <<callVars, result>>

\* libhoth_device_reconnect() after the delay.
Reconnect ==
    /\ pc = "reconnect"
    /\ sent' = 0
    /\ IF ~args.force THEN pc' = "check" /\ UNCHANGED <<i, result>>
       ELSE /\ i' = i + 1
            /\ IF i' < update_cnt THEN pc' = "write" /\ UNCHANGED result
                                  ELSE Return("ok")
    /\ UNCHANGED <<rotVars, image, args, resp, update_cnt, faulty>>

ReconnectFails ==
    /\ pc = "reconnect"
    /\ Return("error")
    /\ faulty' = TRUE
    /\ UNCHANGED <<rotVars, callVars>>

\* The version after an update, and libhoth_ot_check_update_successful().
CheckAfterUpdate ==
    /\ pc = "check"
    /\ resp' = Version
    /\ i' = i + 1
    /\ IF CheckUpdateSuccessful(Version) THEN AfterLoop(Version, update_cnt, i')
                                         ELSE Return("wrong_slot")
    /\ UNCHANGED <<rotVars, image, args, update_cnt, sent, faulty>>

\* The tool exits.
Exit ==
    /\ pc = "returned"
    /\ pc' = "idle"
    /\ image' = NoImage /\ args' = NoArgs /\ resp' = NoResp
    /\ update_cnt' = 0 /\ i' = 0 /\ sent' = 0
    /\ faulty' = FALSE /\ result' = "none"
    /\ UNCHANGED rotVars

Next ==
    \/ \E img \in [rom_ext : RomExts, app : Apps, sec : SecVers],
          a \in [restart : BOOLEAN, force : BOOLEAN] : Start(img, a)
    \/ GetVersion
    \/ GetVersionFails
    \/ DfuWrite
    \/ DfuWriteFails
    \/ \E ok \in BOOLEAN : DfuComplete(ok)
    \/ Reconnect
    \/ ReconnectFails
    \/ CheckAfterUpdate
    \/ Exit
    \/ RotResets

Spec == Init /\ [][Next]_vars

-----------------------------------------------------------------------------
(* Properties                                                              *)

\* The RoT never boots a slot that a failed or interrupted update left half
\* written: DFU_COMPLETE follows only on a whole session.
BootedNeverTorn == Booted(app) # Torn /\ Booted(rom_ext) # TornRomExt

\* libhoth_dfu_install_firmware() reports success only when both application
\* slots and the staging ROM_EXT of the RoT hold the bundle's version and the
\* booted ROM_EXT is at least that, however often DFU_COMPLETE's response was
\* lost or the chip reset on its own; the same command then has nothing to do.
InstallOkMeansInstalled ==
    result = "ok" /\ ~args.force =>
        UpdateComplete(Version) /\ DfuUpdateCount(Version) = 0

\* When updates are made, nothing fails and the chip is restarted, the updates
\* that were counted are enough: the install ends in success.
CountedUpdatesSuffice ==
    pc = "returned" /\ ~faulty /\ args.restart /\ update_cnt > 0 =>
        result = "ok"

\* dfu_hostcmd.h: "Performs whatever updates are necessary to ensure that both
\* internal A/B partitions match the provided firmware image."
PerformsNecessaryUpdates ==
    pc = "returned" /\ ~faulty /\ args.restart => result \in {"ok", "refused"}
=============================================================================
