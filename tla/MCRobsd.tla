------------------------------ MODULE MCRobsd ------------------------------
(***************************************************************************)
(* Robsd on builds of a few steps: a sequential one as of robsd, and mixed *)
(* ones as of canvas and robsd-regress.                                    *)
(***************************************************************************)
EXTENDS Robsd
=============================================================================
