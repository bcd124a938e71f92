--------------------------- MODULE MCSettingsApply ---------------------------
(***************************************************************************)
(* Two values per field; the sides exclude each other when their numbers   *)
(* are equal, as a port two users claim.  The posted records change one    *)
(* side, the other side and the port of the web server, the mode.          *)
(***************************************************************************)
EXTENDS SettingsApply

CONSTANT Forward

Record(m, b, i, w, s) == [mode |-> m, bms |-> b, inv |-> i, web |-> w, ssid |-> s]

MCModes   == {Bridge, Forward}
MCValid   == {r \in Settings : r.bms # r.inv}
MCDefault == Record(Bridge, 1, 2, 80, 1)

\* Another route; another one on another web port; a mode change; refused.
MCPosts == {Record(Bridge, 1, 3, 80, 1), Record(Bridge, 2, 1, 81, 2),
            Record(Forward, 1, 2, 80, 1), Record(Bridge, 2, 2, 80, 1)}
=============================================================================
