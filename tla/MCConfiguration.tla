--------------------------- MODULE MCConfiguration ---------------------------
(* Values for Configuration's constants. *)
EXTENDS Configuration, TLC

MCNumbers == {"5900", "5901", "5902"}
MCValueOf == "5900" :> 1 @@ "5901" :> 2 @@ "5902" :> 3
MCPorts == 1..3
MCDefaultSpec == <<"5900">>

\* display stands for the settings that are read alike, on_connect for those only
\* files have.
MCCommandLines ==
    {{}, {"listen"}, {"ssl_enabled"}, {"display", "spice_password"}, {"password_file"},
     {"generate_password"}, {"spice_password", "password_file"}, {"listen", "ssl_enabled"},
     {"listen", "spice_password"}}
MCUserFiles ==
    {{}, {"display", "on_connect"}, {"spice_password", "listen"}, {"password_file"},
     {"certs_file", "generate_password"}, {"disable_ticketing", "ssl_enabled"}}
MCSystemFiles ==
    {{}, {"spice_password"}, {"display", "listen", "disable_ticketing"},
     {"ca_cert_file", "certs_file", "on_connect"}}

MCSslSpecs ==
    {<<>>, <<"a", "b">>, <<"", "b">>, <<"a", "b", "c", "d", "e", "f">>,
     <<"a", "b", "c", "d", "e", "f", "g">>}

Hosts == {<<>>, <<"h">>, <<"h", "h">>, <<" ", "h">>}
Ends == {<<>>, <<"5901">>, <<"5900", "-", "5902">>, <<"5902", "-", "5900">>,
         <<"5902", "-", "5902">>, <<"-", "5901">>, <<"5900", "-">>,
         <<"5900", "-", "-", "5901">>, <<"5901", " ">>, <<"5901", " ", "-", "5902">>}
MCListenSpecs ==
    {host \o colon \o end : host \in Hosts, colon \in {<<>>, <<":">>}, end \in Ends}
        \cup {prefix \o rest : prefix \in {<<"spice://">>, <<"spice+unix://">>},
                              rest \in {<<>>, <<"5901">>, <<"h", "h", ":", "5900", "-", "5901">>}}
=============================================================================
