---------------------------- MODULE MCLifecycle ----------------------------
(* Two configurations with one token and one peer each, the starter one with *)
(* its addresses put right but not its token, and a broken one; v6proxy init *)
(* adds the starter one itself.                                              *)
EXTENDS Lifecycle

CONSTANTS localhost, remote, token1, token2

MCConfigs ==
    { [state |-> "valid", allow |-> {localhost}, token |-> token1, refused |-> {}],
      [state |-> "valid", allow |-> {remote}, token |-> token2, refused |-> {}],
      [state |-> "valid", allow |-> {localhost}, token |-> NoToken, refused |-> {}],
      [state |-> "invalid", allow |-> {}, token |-> token1, refused |-> {}] }
============================================================================
