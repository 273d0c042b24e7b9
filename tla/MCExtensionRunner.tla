---- MODULE MCExtensionRunner ----
(* A provider, an extension that requires it and one that uses it if it is there; *)
(* the reloads replace one by the other and also ask for the first without its    *)
(* provider.                                                                      *)
EXTENDS ExtensionRunner

MCRequires == [base |-> {}, client |-> {"base"}, tools |-> {}]
MCUses == [base |-> {}, client |-> {"base"}, tools |-> {"base"}]
MCDesired == {{"client"}, {"base", "client"}, {"base", "tools"}}
====
