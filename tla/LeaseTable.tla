----------------------------- MODULE LeaseTable -----------------------------
(***************************************************************************)
(* What the DHCP server of a subnet promises: one table, the parameters of *)
(* the subnet and the reservations by MAC address.  A request changes it   *)
(* whole or not at all, and the table outlives the process that serves it. *)
(* It can only be lost when the agent has wiped its state file and nothing *)
(* has been written since.                                                 *)
(***************************************************************************)
CONSTANTS Configs,   \* parameters of a subnet (dhcpd.SubnetConfig)
          Macs,      \* MAC addresses of interfaces
          Hosts,     \* what a reservation says (dhcpd.Host without the MAC)
          None       \* no subnet, no reservation

VARIABLES table, wiped

Tables == [subnet : Configs \cup {None}, hosts : [Macs -> Hosts \cup {None}]]
Empty == [subnet |-> None, hosts |-> [m \in Macs |-> None]]

(* The three orders that change the table.  Deleting a reservation that is *)
(* not there is no error.                                                  *)
SetSubnet(t, c)  == [t EXCEPT !.subnet = c]
SetHost(t, m, h) == [t EXCEPT !.hosts[m] = h]
DelHost(t, m)    == [t EXCEPT !.hosts[m] = None]

Requests == [op : {"set-subnet"}, subnet : Configs]
            \cup [op : {"set-host"}, mac : Macs, host : Hosts]
            \cup [op : {"del-host"}, mac : Macs]

dispatch(t, r) == IF r.op = "set-subnet" THEN SetSubnet(t, r.subnet)
                  ELSE IF r.op = "set-host" THEN SetHost(t, r.mac, r.host)
                  ELSE DelHost(t, r.mac)

Init == table = Empty /\ wiped = TRUE

Update == /\ \E r \in Requests : table' = dispatch(table, r)
          /\ wiped' = FALSE

(* A server that starts without a state file writes an empty one. *)
Renew == wiped /\ table' = Empty /\ wiped' = FALSE

Wipe == wiped' = TRUE /\ UNCHANGED table
Lose == wiped /\ table' = Empty /\ UNCHANGED wiped

(* The file of a server that does not run holds the table itself. *)
WipeAtRest == wiped' = TRUE /\ table' = Empty

Next == Update \/ Renew \/ Wipe \/ Lose \/ WipeAtRest

Spec == Init /\ [][Next]_<<table, wiped>>
=============================================================================
