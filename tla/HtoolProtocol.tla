--------------------------- MODULE HtoolProtocol ---------------------------
(***************************************************************************)
(* The functions of protocol/ that send one or a few host commands, as the *)
(* steps they take.  Checks of arguments that no caller in htool can make  *)
(* fail (a NULL device or buffer) are left out.                            *)
(***************************************************************************)
EXTENDS HtoolSteps

libhoth_chipinfo == <<GetShort("CHIP_INFO"), Sized>>

libhoth_hello == <<Get("HELLO")>>

libhoth_reboot == <<Put("REBOOT_EC")>>

libhoth_get_rot_fw_version == <<Get("GET_VERSION")>>

libhoth_get_command_versions == <<Get("GET_CMD_VERSIONS")>>

libhoth_opentitan_version == <<Get("GET_VERSION of OpenTitan")>>

-----------------------------------------------------------------------------
(* Authorization records                                                   *)

libhoth_authz_record_erase == <<Put("SET_AUTHZ_RECORD erase")>>

libhoth_authz_record_read == <<Get("GET_AUTHZ_RECORD")>>

libhoth_authz_record_build ==
    libhoth_chipinfo
    \o <<Check("chipinfo version 0"), Get("GET_AUTHZ_RECORD_NONCE"),
         Check("RO key id is set"), Check("RO and RW key ids agree")>>

libhoth_authz_record_set == <<Put("SET_AUTHZ_RECORD")>>

libhoth_authorization_record_from_hex_string == <<Check("hex record")>>

-----------------------------------------------------------------------------
(* Storage, pins, watchdog, firmware, secure boot                          *)

\* The caller uses the payload_len bytes that arrived.
libhoth_controlled_storage_read == <<Get("CONTROLLED_STORAGE read")>>

libhoth_controlled_storage_write ==
    <<Check("length fits"), Put("CONTROLLED_STORAGE write")>>

libhoth_controlled_storage_delete == <<Put("CONTROLLED_STORAGE delete")>>

libhoth_set_gpio_drive_strength ==
    <<Check("strength <= 15"), Put("SET_GPIO_DRIVE_STRENGTH")>>

libhoth_get_gpio_drive_strength == <<Get("GET_GPIO_DRIVE_STRENGTH")>>

libhoth_pet_target_watchdog == <<Put("PET_TARGET_WATCHDOG")>>

libhoth_firmware_update_from_flash_and_reset ==
    <<PutOrLost("FIRMWARE_UPDATE"), Open("libhoth_device_reconnect")>>

libhoth_secure_boot_get_enforcement ==
    <<GetShort("GET_SECURE_BOOT_ENFORCEMENT"), Sized>>

libhoth_secure_boot_enable_enforcement == <<Put("SET_SECURE_BOOT_ENFORCEMENT")>>

\* The size of the answer is not looked at.
libhoth_get_statistics == <<GetShort("GET_STATISTICS")>>

libhoth_payload_status == <<GetShort("PAYLOAD_STATUS"), Sized>>

-----------------------------------------------------------------------------
(* Update session, MAUV                                                    *)

libhoth_update_session_start ==
    <<Check("timeout is not 0"), Put("UPDATE_SESSION_START")>>

libhoth_update_session_finalize == <<Put("UPDATE_SESSION_FINALIZE")>>

libhoth_update_session_get_status ==
    <<GetShort("UPDATE_SESSION_GET_STATUS"), Sized>>

\* An answer of four bytes, the old version's, is taken as it is.
libhoth_fetch_mauv == <<GetShort("MAUV")>> \o Maybe(<<Sized>>)

libhoth_update_mauv == <<Check("record size"), Put("UPDATE_MAUV")>>

-----------------------------------------------------------------------------
(* I2C, JTAG, panic record                                                 *)

libhoth_i2c_detect == <<GetShort("I2C_DETECT"), Sized>>

libhoth_i2c_transfer == <<PutShort("I2C_TRANSFER"), Sized>>

libhoth_jtag_read_idcode == <<GetShort("JTAG read_idcode"), Sized>>

libhoth_jtag_test_bypass == <<PutShort("JTAG test_bypass"), Sized>>

libhoth_jtag_program_and_verify_pld == <<Put("JTAG program_and_verify_pld")>>

libhoth_jtag_verify_pld == <<Get("JTAG verify_pld")>>

\* In chunks.
libhoth_get_panic ==
    Loop(<<GetShort("PERSISTENT_PANIC_INFO get"), Sized>>)

libhoth_clear_persistent_panic_info == <<Put("PERSISTENT_PANIC_INFO erase")>>
=============================================================================
