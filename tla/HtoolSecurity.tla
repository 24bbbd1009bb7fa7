--------------------------- MODULE HtoolSecurity ---------------------------
(***************************************************************************)
(* The handlers of htool's security and provisioning commands.             *)
(***************************************************************************)
EXTENDS HtoolFiles

(* htool_get_security_version() asks which of two protocols the RoT speaks.*)
(* All but one of its callers give up unless it is the second version; an  *)
(* error counts as an unknown version.                                     *)
V2Supported == Get("IS_HOST_COMMAND_SUPPORTED SECURITY_V2")
V3Supported == Get("IS_HOST_COMMAND_SUPPORTED SECURITY_V3")
htool_get_security_version == <<V2Supported>> \o Maybe(<<V3Supported, Fail>>)

\* The framing of parameters is the subject of SecurityV2.
htool_exec_security_v2_cmd(step) == Status(<<step>>) \o <<Check("parameters")>>

htool_exec_security_v2_serialized_cmd(step) == <<step, Check("parameters")>>

htool_info ==
    htool_libhoth_device \o htool_get_security_version
    \o htool_exec_security_v2_cmd(Get("SECURITY_V2 info"))
    \o libhoth_get_rot_fw_version

htool_security_startup ==
    htool_libhoth_device \o <<V2Supported>> \o Maybe(<<Stop>>)
    \o <<V3Supported>> \o Maybe(<<Fail>>) \o Status(<<Put("TPM startup")>>)

htool_set_tpm_mode ==
    htool_libhoth_device
    \o <<Require(Is("verb", {"disabled", "tpm_spi", "spi_nor_mailbox"}))>>
    \o Status(<<Put("SET_TPM_MODE")>>)

htool_get_tpm_mode == htool_libhoth_device \o Status(<<Get("GET_TPM_MODE")>>)

-----------------------------------------------------------------------------
(* Certificates                                                            *)

get_cert_v2_data ==
    <<Ask("string", "output"), Create("output")>> \o htool_get_security_version
    \o htool_exec_security_v2_cmd(Get("SECURITY_V2 get certificate"))
    \o <<WriteBuffered("output")>>

htool_get_attestation_pub_cert == htool_libhoth_device \o get_cert_v2_data

htool_get_signed_attestation_pub_cert ==
    htool_libhoth_device \o get_cert_v2_data

\* Version 0 and version 1 differ in the certificate's size.
htool_get_alias_key_cert ==
    htool_libhoth_device
    \o <<Ask("u32", "version"), Require(Is("version", {"0", "1"}))>>
    \o get_cert_v2_data

htool_get_device_id_cert ==
    htool_libhoth_device \o <<Ask("string", "cert_output")>>
    \o When(Isnt("cert_output", {""}), <<Create("cert_output")>>)
    \o <<Ask("string", "endorsement_cert_output")>>
    \o When(Isnt("endorsement_cert_output", {""}),
            <<Create("endorsement_cert_output")>>)
    \o When(Is("cert_output", {""}),
            <<Require(Isnt("endorsement_cert_output", {""}))>>)
    \o htool_get_security_version
    \o htool_exec_security_v2_cmd(Get("SECURITY_V2 get device id"))
    \o When(Isnt("cert_output", {""}), <<WriteBuffered("cert_output")>>)
    \o When(Isnt("endorsement_cert_output", {""}),
            <<WriteBuffered("endorsement_cert_output")>>)

-----------------------------------------------------------------------------
(* The attestation key                                                     *)

read_exact_file(file) == <<Read(file)>>

\* The few bytes stay in the buffer until fclose(), which is not checked.
write_exact_file(file) == <<Create(file), WriteBuffered(file)>>

exec_unload_attestation_key ==
    htool_exec_security_v2_cmd(Put("SECURITY_V2 unload attestation key"))

\* exec_gen_attestation_key_v1 and _v2
exec_gen_attestation_key ==
    htool_exec_security_v2_cmd(Put("SECURITY_V2 generate attestation key"))

\* exec_load_attestation_key and exec_load_attestation_key_from_csr_v1
exec_load_attestation_key ==
    htool_exec_security_v2_cmd(Put("SECURITY_V2 load attestation key"))

htool_unload_attestation_key ==
    htool_libhoth_device \o htool_get_security_version
    \o exec_unload_attestation_key

\* The key is generated before the files are opened.
GenAttestationKey ==
    <<Ask("string", "csr_output"), Ask("string", "wrapped_key_output"),
      Require(Isnt("csr_output", {""})),
      Require(Isnt("wrapped_key_output", {""}))>>
    \o htool_get_security_version \o exec_gen_attestation_key
    \o write_exact_file("csr_output") \o write_exact_file("wrapped_key_output")

htool_gen_attestation_key_v1 == htool_libhoth_device \o GenAttestationKey

htool_gen_attestation_key_v2 ==
    htool_libhoth_device \o <<Ask("u32", "fw_major_version")>>
    \o GenAttestationKey

LoadAttestationKey(cert) ==
    htool_libhoth_device
    \o <<Ask("string", "wrapped_key"), Ask("string", cert),
         Require(Isnt("wrapped_key", {""})), Require(Isnt(cert, {""}))>>
    \o read_exact_file("wrapped_key") \o read_exact_file(cert)
    \o htool_get_security_version \o exec_load_attestation_key

htool_load_attestation_key == LoadAttestationKey("cert")

htool_load_attestation_key_from_csr_v1 == LoadAttestationKey("csr")

htool_provision_attestation_key ==
    htool_libhoth_device \o htool_get_security_version
    \o exec_unload_attestation_key \o exec_gen_attestation_key
    \o exec_load_attestation_key

-----------------------------------------------------------------------------
(* Attestation tokens.  Each function writes its results to files of its   *)
(* own, or (InMemory) appends them to a buffer of its caller's.            *)

OutputFile(name) == <<Ask("string", name), Create(name)>>

htool_get_token_set_count_InMemory ==
    htool_get_security_version
    \o htool_exec_security_v2_cmd(Get("SECURITY_V2 token set count"))

htool_get_token_set_count ==
    OutputFile("token_count_output")
    \o OutputFile("token_count_boot_nonce_output")
    \o OutputFile("token_count_signature_output")
    \o htool_get_token_set_count_InMemory
    \o <<WriteBuffered("token_count_output"),
         WriteBuffered("token_count_boot_nonce_output"),
         WriteBuffered("token_count_signature_output")>>

\* A path that the index makes too long is an error.
TokensOfSet ==
    htool_get_security_version
    \o htool_exec_security_v2_serialized_cmd(Get("SECURITY_V2 tokens in set"))
    \o <<Check("size of the tokens")>>

htool_get_tokens_in_set_InMemory ==
    <<Ask("string", "token_output"), Check("path length")>> \o TokensOfSet

htool_get_tokens_in_set ==
    <<Ask("string", "token_output"), Check("path length")>>
    \o <<Create("token_output")>> \o OutputFile("token_signature_output")
    \o OutputFile("token_boot_nonce_output") \o TokensOfSet
    \o <<WriteBuffered("token_output"), WriteBuffered("token_boot_nonce_output"),
         WriteBuffered("token_signature_output")>>

htool_get_token_set_info_InMemory ==
    htool_get_security_version
    \o htool_exec_security_v2_cmd(Get("SECURITY_V2 token set info"))

htool_get_token_set_info ==
    OutputFile("token_set_info") \o htool_get_token_set_info_InMemory
    \o <<WriteBuffered("token_set_info")>>

\* Once the count has been read, status is 0 and stays so through every
\* goto cleanup.
htool_fetch_single_attestation_file ==
    htool_get_token_set_count_InMemory
    \o Dropped(<<Create("attestation_file")>> \o htool_get_security_version)
    \o Loop(Dropped(<<Check("room for the tokens")>>)
            \o htool_get_tokens_in_set_InMemory
            \o Dropped(<<Check("room for the set info")>>)
            \o htool_get_token_set_info_InMemory)
    \o <<WriteBuffered("attestation_file")>>

htool_fetch_attestation ==
    <<Ask("string", "attestation_file")>> \o htool_libhoth_device
    \o When(Is("attestation_file", {""}),
            htool_get_token_set_count
            \o Loop(htool_get_tokens_in_set \o htool_get_token_set_info))
    \o When(Isnt("attestation_file", {""}), htool_fetch_single_attestation_file)

-----------------------------------------------------------------------------
(* Provisioning.  The exchanges with the RoT are the subject of            *)
(* Provisioning.                                                           *)

htool_get_provisioning_log ==
    htool_libhoth_device \o OutputFile("output")
    \o Status(<<GetShort("PROVISIONING_LOG read header")>>)
    \o Loop(Status(<<GetShort("PROVISIONING_LOG read")>>)
            \o <<Sized, Check("log fits")>>)
    \o <<WriteBuffered("output")>>

\* The answer is as long as the certificate happens to be.
htool_validate_and_sign ==
    htool_libhoth_device
    \o <<Ask("string", "perso_blob"), Read("perso_blob"),
         Ask("string", "output")>>
    \o When(Isnt("output", {""}), <<Create("output")>>)
    \o Status(<<Get("PROVISIONING_LOG validate and sign")>>)
    \o When(Isnt("output", {""}), <<WriteBuffered("output")>>)

\* A file that is named, can be read and has a size within bounds.
read_binary_file(file) ==
    <<Ask("string", file), Require(Isnt(file, {""})), Read(file)>>

get_secrets == read_binary_file("secrets")

htool_provisioning_store_secrets ==
    htool_libhoth_device \o get_secrets
    \o <<Put("KEY_PROVISIONING store secrets")>>

htool_provisioning_write ==
    htool_libhoth_device \o read_binary_file("input")
    \o Repeat(<<Put("PROVISIONING_LOG write")>>)
    \o <<Put("PROVISIONING_LOG commit")>>

htool_provisioning_load_mldsa_key ==
    htool_libhoth_device \o read_binary_file("key")
    \o Repeat(<<Put("KEY_PROVISIONING load ML-DSA key")>>)
=============================================================================
