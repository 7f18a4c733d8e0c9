---------------------------- MODULE MCHttpServer ----------------------------
(* Four clients: one hangs up, one sends a body, one (a GET) does not, and   *)
(* one announces a length that cannot be read.                               *)
EXTENDS HttpServer

CONSTANTS quitter, poster, getter, babbler

FourClients == {quitter, poster, getter, babbler}
OneQuitter == {quitter}
OneBabbler == {babbler}
BodyLengths == [c \in FourClients |-> IF c \in {quitter, poster} THEN 2 ELSE 0]
=============================================================================
