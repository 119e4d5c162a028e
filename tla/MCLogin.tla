------------------------------- MODULE MCLogin -------------------------------
(***************************************************************************)
(* Two tabs behind no trusted proxy, one host, and an .env file that lacks *)
(* the session secret or is complete.                                      *)
(***************************************************************************)
EXTENDS Login

CONSTANTS none

MCPages == {"/runs"}
MCHome == "/runs"

Request(origin) == [site |-> "same-origin", host |-> "dash", origin |-> origin,
                    referer |-> none, realIp |-> none, forwarded |-> none]

(* The browser's own requests, and the same behind a proxy that rewrites
   the host.                                                               *)
MCHeaders == {Request("dash"), Request("outside")}

MCFiles ==
    { [k \in {"password", "secret", "token"} |->
         CASE k = "password" -> "pw" [] k = "token" -> "tok" [] OTHER -> s] : s \in {none, "s1"} }
MCLongSecrets == {"s1"}
=============================================================================
