----------------------------- MODULE HtoolFiles -----------------------------
(***************************************************************************)
(* The handlers of htool's commands that work on the RoT's firmware,       *)
(* payload, keys, certificates and logs, most of them with files of the    *)
(* user's as input or output.                                              *)
(***************************************************************************)
EXTENDS HtoolHandlers

-----------------------------------------------------------------------------
(* Payload.  What the update, the read and the activation do to the flash  *)
(* is the subject of PayloadUpdate.                                        *)

htool_payload_update ==
    htool_libhoth_device
    \o <<Ask("string", "source-file"), Ask("bool", "skip_erase"),
         Ask("bool", "binary"), Read("source-file"),
         Put("libhoth_payload_update")>>

htool_payload_read ==
    htool_libhoth_device
    \o <<Ask("string", "dest-file"), Ask("u32", "start"), Ask("u32", "length"),
         Require(Isnt("dest-file", {""})), Require(Isnt("length", {"0"})),
         Create("dest-file")>>
    \o Repeat(<<Get("PAYLOAD_UPDATE read"), Write("dest-file")>>)

htool_payload_update_getstatus ==
    htool_libhoth_device \o <<Get("libhoth_payload_update_getstatus")>>

htool_payload_erase ==
    htool_libhoth_device
    \o <<Ask("u32", "start"), Ask("u32", "length"),
         Put("libhoth_payload_update_erase")>>

htool_payload_activate ==
    htool_libhoth_device
    \o <<Ask("string", "side"), Require(Is("side", {"A", "a", "B", "b"})),
         Put("libhoth_payload_update_activate")>>

htool_payload_update_verify ==
    htool_libhoth_device
    \o <<Ask("bool", "descriptor"), Get("libhoth_payload_update_verify")>>

htool_payload_update_confirm ==
    htool_libhoth_device \o <<Put("libhoth_payload_update_confirm")>>

htool_payload_update_confirm_get_staged_timeout ==
    htool_libhoth_device \o <<Get("PAYLOAD_UPDATE confirm get timeout")>>

htool_payload_update_confirm_enable ==
    htool_libhoth_device
    \o <<Ask("u32", "timeout"), Ask("bool", "enable"),
         Put("PAYLOAD_UPDATE confirm enable")>>

htool_payload_image_open == <<Ask("string", "source-file"), Read("source-file")>>

\* munmap() and close()
htool_payload_image_close == <<Check("image is closed")>>

\* An image that cannot be parsed is closed, and the closing succeeds.
htool_payload_info ==
    htool_payload_image_open \o Dropped(<<Check("payload image")>>)
    \o htool_payload_image_close
htool_payload_info_all == htool_payload_info
htool_payload_info_nonstatic == htool_payload_info

htool_payload_status == htool_libhoth_device \o libhoth_payload_status

htool_get_compiled_payload_mauv == htool_libhoth_device \o libhoth_fetch_mauv

htool_get_effective_payload_mauv == <<Stop>>

-----------------------------------------------------------------------------
(* Firmware, sessions, mode switches, logs                                 *)

htool_firmware_update ==
    htool_libhoth_device \o <<Ask("u32", "offset")>>
    \o libhoth_firmware_update_from_flash_and_reset

\* The installation is the subject of DfuInstall.
htool_dfu_update ==
    htool_libhoth_device
    \o <<Ask("string", "reset"), Require(Is("reset", {"warm", "cold", "none"})),
         Ask("bool", "force"), Ask("string", "fwupdate-file"),
         Read("fwupdate-file")>>
    \o When(True("force"), <<Put("libhoth_dfu_update"),
                             Put("libhoth_dfu_update")>>)
    \o When(False("force"), <<Put("libhoth_dfu_install_firmware")>>)

htool_dfu_check ==
    htool_libhoth_device
    \o <<Ask("string", "fwupdate-file"), Read("fwupdate-file")>>
    \o libhoth_opentitan_version \o <<Check("libhoth_dfu_check")>>

htool_target_watchdog_pet ==
    htool_libhoth_device \o <<Ask("u64", "cookie")>>
    \o libhoth_pet_target_watchdog

htool_secure_boot_get_enforcement ==
    htool_libhoth_device \o libhoth_secure_boot_get_enforcement

htool_secure_boot_enable_enforcement ==
    htool_libhoth_device \o libhoth_secure_boot_enable_enforcement

htool_statistics == htool_libhoth_device \o libhoth_get_statistics

\* The result of fwrite() is checked; what it left in the buffer goes at fclose().
dump_panic_record_to_file ==
    <<Create("file"), Write("file"), WriteBuffered("file")>>

htool_panic_get_panic ==
    <<Ask("bool", "clear"), Ask("bool", "hexdump"), Ask("string", "file")>>
    \o htool_libhoth_device
    \o When(True("clear"), libhoth_clear_persistent_panic_info)
    \o When(False("clear"),
            libhoth_get_panic
            \o When(Isnt("file", {""}), dump_panic_record_to_file))

\* --timeout if it is not empty, else the positional parameter.
htool_update_session_start ==
    htool_libhoth_device
    \o When(Is("timeout", {""}), <<Require(Isnt("timeout_seconds", {""}))>>)
    \o <<Check("timeout parses and is not 0")>> \o libhoth_update_session_start

htool_update_session_finalize ==
    htool_libhoth_device \o libhoth_update_session_finalize

htool_update_session_status ==
    htool_libhoth_device \o libhoth_update_session_get_status

htool_mauv_compiled == htool_libhoth_device \o libhoth_fetch_mauv
htool_mauv_effective == htool_libhoth_device \o libhoth_fetch_mauv

htool_mauv_update ==
    htool_libhoth_device \o <<Ask("string", "record-file"), Read("record-file")>>
    \o libhoth_update_mauv

\* Header, payload and checksum of each request come from standard input, whose
\* end before a header ends the command.
command_raw_host_command ==
    htool_libhoth_device
    \o Loop(<<Check("request header"), Check("payload size"),
              Check("whole payload"), Check("request checksum")>>
            \o Status(<<Pass("the request")>>)
            \o <<Check("response is written")>>)

-----------------------------------------------------------------------------
(* Key rotation: see KeyRotation and ChunkRead.                            *)

htool_key_rotation_get_status ==
    htool_libhoth_device \o <<Get("KEY_ROTATION get status")>>

htool_key_rotation_get_version ==
    htool_libhoth_device \o <<Get("KEY_ROTATION get version")>>

read_image_file == <<Read("source-file")>>

htool_key_rotation_update ==
    htool_libhoth_device \o <<Ask("string", "source-file")>> \o read_image_file
    \o <<Put("libhoth_key_rotation_update")>>

htool_key_rotation_payload_status ==
    htool_libhoth_device \o <<Get("KEY_ROTATION payload status")>>

get_key_rotation_read_half ==
    <<Require(Is("half", {"active", "staging", "a", "b"}))>>

\* A file that exists is overwritten only after the user confirms.
OpenOutputFile ==
    When(Isnt("output_file", {""}),
         <<Check("overwriting is confirmed"), Create("output_file")>>)

\* --offset and --size are parsed as 32-bit numbers and cut to 16 bits in the call,
\* so that a size from 2^16 on prints or writes more than was read; which bytes
\* they are is data here.
htool_key_rotation_read ==
    htool_libhoth_device
    \o <<Ask("u32", "offset"), Ask("u32", "size"), Ask("string", "half")>>
    \o get_key_rotation_read_half \o OpenOutputFile
    \o <<Get("libhoth_key_rotation_read")>>
    \o When(Isnt("output_file", {""}), <<Write("output_file")>>)

get_key_rotation_chunk_type ==
    <<Require(Is("type", {"pkey", "hash", "bkey", "bash"}))>>

\* A short packet only makes the library warn.  The handler compares the --size that
\* was typed with the one that was asked for after its cut to 16 bits, so it refuses
\* a size that did not fit, and never finds the short packet.
htool_key_rotation_read_chunk_type ==
    htool_libhoth_device
    \o <<Ask("u32", "offset"), Ask("u32", "size"), Ask("string", "type"),
         Ask("u32", "idx")>>
    \o get_key_rotation_chunk_type \o OpenOutputFile
    \o <<GetShort("libhoth_key_rotation_read_chunk_type"),
         Check("size fits in 16 bits")>>
    \o When(Isnt("output_file", {""}), <<Write("output_file")>>)

htool_key_rotation_chunk_type_count ==
    htool_libhoth_device \o <<Ask("string", "type")>>
    \o get_key_rotation_chunk_type \o <<Get("KEY_ROTATION chunk type count")>>

htool_key_rotation_erase_record ==
    htool_libhoth_device \o <<Put("KEY_ROTATION erase record")>>

htool_key_rotation_set_mauv ==
    htool_libhoth_device \o <<Ask("u32", "mauv"), Put("KEY_ROTATION set mauv")>>

htool_key_rotation_get_mauv ==
    htool_libhoth_device \o <<Get("KEY_ROTATION get mauv")>>
=============================================================================
