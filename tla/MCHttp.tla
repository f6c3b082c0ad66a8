------------------------------- MODULE MCHttp -------------------------------
(* Calls of lur.http through one cache.  uName is a URL of an allowed      *)
(* name, uPrivate of an IP literal that is allowed but private, uOther of  *)
(* a port of the allowed name that is not on the list.                     *)
EXTENDS HttpClient, TLC

CONSTANTS c1, c2, uName, uPrivate, uOther, none, ann, bob

MCUrls == {uName, uPrivate, uOther}
MCUsers == {none, ann, bob}
MCKeys == MCUrls \X MCUsers
MCHostOf == (uName :> "name") @@ (uPrivate :> "10.0.0.1") @@ (uOther :> "name")
MCHosts == {"name", "10.0.0.1"}
MCPorts == {443, 8080}
MCPortOf == (uName :> 443) @@ (uPrivate :> 8080) @@ (uOther :> 8080)
MCLiterals == {"10.0.0.1"}
MCAddresses == {"10.0.0.1", "192.0.2.1"}
MCPrivate == {"10.0.0.1"}
MCAddressOf == "10.0.0.1" :> "10.0.0.1"
MCAllow == {[host |-> "name", port |-> 443], [host |-> "10.0.0.1", port |-> Wild]}

MCSymmetry == Permutations({c1, c2}) \cup Permutations({ann, bob})
=============================================================================
