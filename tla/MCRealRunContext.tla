-------------------------- MODULE MCRealRunContext --------------------------
(* Two starts, and room for a second run that must not be created.          *)
EXTENDS RealRunContext
=============================================================================
