---------------------------- MODULE RouteResolve ----------------------------
(***************************************************************************)
(* The route a gateway request takes to the upstream (gateway/route.rs):   *)
(* each mode tries its own transport and falls back through the others.    *)
(***************************************************************************)
EXTENDS Naturals

Routes == {"Proxy", "Static", "Vercel", "Direct"}

Modes == {"proxy", "static", "vercel", "direct"}

(* The order in which a mode tries the transports; any other mode is "proxy". *)
Chain(mode) ==
  CASE mode = "static" -> <<"Static", "Vercel", "Proxy", "Direct">>
    [] mode = "vercel" -> <<"Vercel", "Static", "Proxy", "Direct">>
    [] mode = "direct" -> <<"Direct">>
    [] OTHER           -> <<"Proxy", "Static", "Vercel", "Direct">>

(* resolve_route: the first of them that is configured; Direct always is. *)
Resolve(mode, configured) ==
  LET usable == {i \in DOMAIN Chain(mode) : Chain(mode)[i] \in configured \cup {"Direct"}}
  IN  Chain(mode)[CHOOSE i \in usable : \A j \in usable : i <= j]
=============================================================================
