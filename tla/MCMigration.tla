---------------------------- MODULE MCMigration ----------------------------
(* Two VMs, each as one of the versions left it: no VM at all; the single  *)
(* interface of before nic/, with or without its tap; two interfaces whose *)
(* MACs are in the table, or one of them; interfaces with a MAC and        *)
(* without a name; two disks for one name.                                 *)
EXTENDS MigrationInvariant

OneNic(tap) == {<<"vm", "subnet">>, <<"vm", "ip">>, <<"disk", "sda">>, <<"vm", "body">>}
               \cup (IF tap THEN {<<"vm", "tap_id">>} ELSE {})
Double      == (Index \X {"subnet", "ip", "tap_id"})
               \cup {<<"1", "primary">>, <<"disk", "sda">>, <<"vm", "body">>}
WithMAC     == ({"0"} \X {"subnet", "ip", "mac", "tap_id", "primary"})
               \cup {<<"disk", "xvda">>, <<"vm", "body">>}

TwoDisks    == (WithMAC \ {<<"disk", "xvda">>}) \cup {<<"disk", "sda">>, <<"disk", "other">>}

MCLayouts == {[keys |-> {}, st |-> None, macs |-> {}],
              [keys |-> OneNic(TRUE), st |-> "started", macs |-> {"0"}],
              [keys |-> OneNic(FALSE), st |-> "starting", macs |-> {"0"}],
              [keys |-> OneNic(TRUE), st |-> "stopped", macs |-> {"0"}],
              [keys |-> Double, st |-> "running", macs |-> Index],
              [keys |-> Double, st |-> "unknown", macs |-> {"1"}],
              [keys |-> WithMAC, st |-> "deleting", macs |-> {}],
              [keys |-> TwoDisks, st |-> "running", macs |-> {}]}

(* A store that no earlier version has written. *)
NewLayouts == {[keys |-> {}, st |-> None, macs |-> {}]}
=============================================================================
