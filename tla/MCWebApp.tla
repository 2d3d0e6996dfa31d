------------------------------ MODULE MCWebApp ------------------------------
(***************************************************************************)
(* A small instance of WebApp for TLC: a page of one asset, loaded by two  *)
(* threads at a time. WebAppProofs covers pages of any length.             *)
(***************************************************************************)
EXTENDS WebApp

CONSTANTS BTC

OneRow == <<BTC>>
=============================================================================
