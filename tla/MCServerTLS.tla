------------------------------ MODULE MCServerTLS ------------------------------
EXTENDS ServerTLS

Built(type) == [type |-> type, custom |-> NoSpec]
Own(min, ciphers) == [type |-> "Custom", custom |-> [min |-> min, ciphers |-> ciphers]]

\* The default, a weaker and a stronger one, one of a type nobody knows, one
\* without a block, and custom ones without suites, with none that is usable, and
\* with TLS 1.3.
MCProfiles ==
    {Built(""), Built("Old"), Built("Modern"), Built("Unheard"), Built("Custom"),
     Own(12, {}), Own(12, {"tls13"}), Own(13, {})}
================================================================================
