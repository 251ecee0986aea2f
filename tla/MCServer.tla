------------------------------ MODULE MCServer ------------------------------
(***************************************************************************)
(* A small instance of Server for TLC: as many requests as workers, so     *)
(* tasks queue and workers contend for the mutex.                          *)
(***************************************************************************)
EXTENDS Server

CONSTANTS p1, p2, p3,   \* worker threads
          h1, h2, h3    \* handler threads
=============================================================================
