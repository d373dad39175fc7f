---------------------------- MODULE MCDeviceFiles ---------------------------
EXTENDS DeviceFiles

C(id, type, files) == [id |-> id, type |-> type, files |-> files]

MCHostKeys == {"rsa", "ed25519"}
MCDefault == <<"uhttpd.crt", "uhttpd.key">>
MCReplaced == {"target", "second", "shadow"}
MCOther == {"authorized_keys", "own.crt", "own.key"}

\* A file name no daemon uses is in one of the host_key_restore payloads.
MCCommands ==
  { C(1, "file_write", <<"authorized_keys">>),
    C(2, "host_key_restore", <<"rsa", "ed25519">>),
    C(3, "host_key_restore", <<"rsa", "unknown">>),
    C(4, "host_key_remove", <<>>),
    C(5, "host_key_fetch", <<>>),
    C(6, "tls_cert_push", <<"own.crt", "own.key">>),
    C(7, "tls_cert_push", MCDefault),
    C(8, "tls_cert_remove", <<>>),
    C(9, "file_transfer", <<"target", "second">>),
    C(10, "file_transfer", <<"target">>),
    C(11, "set_password", <<"shadow">>) }
=============================================================================
