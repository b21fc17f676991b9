---------------------------- MODULE MCAclFilter ----------------------------
(* Names of up to three labels with zones of one and two labels, an exact  *)
(* name and a keyword; networks of 3-bit addresses nested in, equal to and *)
(* around a special-use one.                                               *)
EXTENDS AclFilter

MCHosts == { <<"com">>, <<"a", "com">>, <<"b", "a", "com">>, <<"c", "a", "com">>,
             <<"b", "org">> }

MCDomainRules == { [kind |-> "domain",  value |-> <<"com">>],
                   [kind |-> "domain",  value |-> <<"a", "com">>],
                   [kind |-> "full",    value |-> <<"b", "a", "com">>],
                   [kind |-> "keyword", value |-> "b"] }

MCOccurs == { <<"b", <<"b", "a", "com">>>>, <<"b", <<"b", "org">>>> }

MCNets == { [prefix |-> 0, len |-> 0], [prefix |-> 0, len |-> 1], [prefix |-> 2, len |-> 3] }

MCBuiltins == { [prefix |-> 2, len |-> 2] }
============================================================================
