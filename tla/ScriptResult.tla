---------------------------- MODULE ScriptResult ----------------------------
(***************************************************************************)
(* What a responder script may answer and what Bridge.Result makes of it:  *)
(* src/internal/services/responder/bridge.go and response.go.              *)
(*                                                                         *)
(* A script returns a Lua table.  Only its shape matters here:             *)
(*   mode          the "mode" field                                        *)
(*   hasResponse   whether "response" is itself a table                    *)
(*   rcode, rtype, provisioning   the fields of "response", Absent if nil  *)
(* A script that returns something else than a table, or raises an error,  *)
(* has the mode Absent.  Malformed actions are skipped and never refused.  *)
(***************************************************************************)

Absent == "absent"

Modes == {"spoof", "proxy", "ignore", "error"}
ResponseCodes == {"NOERROR", "NXDOMAIN", "SERVFAIL", "REFUSED"}
ResponseTypes == {"A", "TXT"}
Provisionings == {"none", "static", "dynamic", "proxy"}

\* The Go zero value of Result, which Handle returns next to every error.
ZeroResult == [mode |-> "", rtype |-> "", provisioning |-> ""]

Results == [mode : Modes \cup {""}, rtype : ResponseTypes \cup {""},
            provisioning : Provisionings \cup {""}]

\* A spoof must carry a response table with a known code and a known type.
SpoofAccepted(t) ==
    /\ t.hasResponse
    /\ t.rcode \in ResponseCodes
    /\ t.rtype \in ResponseTypes
    /\ t.provisioning \in Provisionings \cup {Absent}

\* An ignore may omit the response table, and the code in it.
IgnoreAccepted(t) ==
    t.hasResponse => t.rcode \in ResponseCodes \cup {Absent}

Accepted(t) ==
    /\ t.mode \in Modes
    /\ t.mode = "spoof" => SpoofAccepted(t)
    /\ t.mode = "ignore" => IgnoreAccepted(t)

\* Only a spoof keeps a record type and a provisioning, which defaults to none.
ParseResult(t) ==
    IF ~Accepted(t) THEN ZeroResult
    ELSE IF t.mode # "spoof" THEN [ZeroResult EXCEPT !.mode = t.mode]
    ELSE [mode |-> "spoof", rtype |-> t.rtype,
          provisioning |-> IF t.provisioning = Absent THEN "none"
                                                      ELSE t.provisioning]
=============================================================================
