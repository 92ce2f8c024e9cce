-------------------------- MODULE MCServerRegistry --------------------------
(* Two gates, a gate and a login server, or a logic and a login server.      *)
EXTENDS ServerRegistry

CONSTANTS g1, g2, logic1, login1

MCGates == {g1, g2}
MCLogics == {logic1}
MCLogins == {login1}
MCDeployments == {{g1, g2}, {g1, login1}, {logic1, login1}}
=============================================================================
