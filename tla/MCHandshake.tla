----------------------------- MODULE MCHandshake -----------------------------
(* Instances of Handshake for TLC.  The responses vary one thing at a time *)
(* around a modern client, so that every check is met and passed.          *)
EXTENDS Handshake

AllCapabilities == {"PLUGIN_AUTH", "SECURE_CONNECTION"}

Modern ==
  [protocol41 |-> TRUE, caps |-> AllCapabilities, utf8 |-> TRUE,
   plugin |-> "mysql_native_password", auth |-> "other", db |-> "none"]

ClientResponses ==
  {r \in [protocol41 : {TRUE}, caps : SUBSET AllCapabilities, utf8 : {TRUE},
          plugin : Plugin \ {""}, auth : AuthData, db : {"none", "named"}] :
     r.plugin = "mysql_native_password" => r.auth \in {"empty", "other"}}
  \cup {[Modern EXCEPT !.protocol41 = FALSE], [Modern EXCEPT !.utf8 = FALSE],
        [Modern EXCEPT !.db = "badutf8"]}
=============================================================================
