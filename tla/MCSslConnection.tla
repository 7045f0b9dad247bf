-------------------------- MODULE MCSslConnection ---------------------------
(* Instances of SslConnection for TLC. *)
EXTENDS SslConnection

Secured   == {<<"enableSSL", "setSslConfig">>}
Unsecured == {<<>>}
AllSetups == Secured \cup Unsecured \cup
    {<<"enableSSL">>, <<"setSslConfig">>, <<"setSslConfig", "enableSSL">>}

OnlyTls12 == {"TLS1.2"}
OnlyTls13 == {"TLS1.3"}
Clients   == {"TLS1.1", "TLS1.2", "TLS1.3"}
=============================================================================
