----------------------------- MODULE WanSetup -----------------------------
(***************************************************************************)
(* What the host agent derives from its configuration before it enforces   *)
(* anything: StaticDCMapper (flows/dc-mapper.cc), SimulatedWanDB           *)
(* (host-agent/simulated-wan-db.cc), AllNetemConfigs (enforcer.cc) and the *)
(* network device of the host's addresses (linux-enforcer/data.cc).        *)
(*                                                                         *)
(* A host is configured with a mapping of host addresses to data centers,  *)
(* the netem configs of pairs of data centers, and its own addresses.      *)
(***************************************************************************)
EXTENDS Integers, Sequences, SequencesExt

CONSTANTS
    Hosts, DCs,
    Devices,        \* names of network devices
    MaxPairs        \* bound: dc_pairs of the simulated WAN config

VARIABLES
    entries,        \* config: mapping entries, <<host_addr, dc>>
    pairs,          \* config: dc_pairs
    my_addrs,       \* config: this_host_addrs
    links,          \* kernel: addresses of each device, in order
    device,         \* what the agent found, by either method
    configs         \* what InitSimulatedWan is given

vars == <<entries, pairs, my_addrs, links, device, configs>>

NoDC == "no dc"
NoDevice == "no device"
Unset == "unset"
Set == "set"
-----------------------------------------------------------------------------
(* StaticDCMapper *)

AllDCs(es) ==
    FoldLeft(LAMBDA dcs, e : IF Contains(dcs, e[2]) THEN dcs ELSE Append(dcs, e[2]), <<>>, es)

\* A later entry of the same address replaces an earlier one.
HostDC(es, host) ==
    LET i == SelectLastInSeq(es, LAMBDA e : e[1] = host) IN IF i = 0 THEN NoDC ELSE es[i][2]

HostsForDC(es, dc) ==
    LET of == SelectSeq(es, LAMBDA e : e[2] = dc) IN [i \in 1..Len(of) |-> of[i][1]]
-----------------------------------------------------------------------------
(* SimulatedWanDB *)

\* The LOPRI netem config is the HIPRI one unless there is one of its own.
QoSNetem(p) ==
    [hipri |-> p.netem, lopri |-> IF p.netem_lopri # Unset THEN "own" ELSE p.netem]

NoNetem == [hipri |-> Unset, lopri |-> Unset]

\* Every pair of known data centers has an entry, if an empty one; the last of
\* several configs of a pair counts.
NetemConfigs(es, ps) ==
    LET given == {<<ps[i].src_dc, ps[i].dst_dc>> : i \in 1..Len(ps)}
        known == ToSet(AllDCs(es))
    IN  [k \in given \cup (known \X known) |->
            LET i == SelectLastInSeq(ps, LAMBDA p : <<p.src_dc, p.dst_dc>> = k)
            IN  IF i = 0 THEN NoNetem ELSE QoSNetem(ps[i])]
-----------------------------------------------------------------------------
(* AllNetemConfigs: a flow group per remote data center, with a flow for   *)
(* each of its hosts.                                                      *)

Remote(es, my_dc) == SelectSeq(AllDCs(es), LAMBDA dc : dc # my_dc)

AllNetemConfigs(es, ps, my_dc) ==
    LET db   == NetemConfigs(es, ps)
        dsts == SelectSeq(Remote(es, my_dc), LAMBDA dst : <<my_dc, dst>> \in DOMAIN db)
    IN  [i \in 1..Len(dsts) |->
            [src_dc |-> my_dc, dst_dc |-> dsts[i],
             matched |-> HostsForDC(es, dsts[i]), netem |-> db[<<my_dc, dsts[i]>>]]]

\* The first of the host's addresses the mapper knows.
MyDC(es, addrs) ==
    LET i == SelectInSeq(addrs, LAMBDA a : HostDC(es, a) # NoDC)
    IN  IF i = 0 THEN NoDC ELSE HostDC(es, addrs[i])
-----------------------------------------------------------------------------
(* FindDeviceResponsibleFor reads "ip -json addr": a device with all its   *)
(* addresses.  Where ip has no JSON output the less reliable method reads  *)
(* "ip -oneline addr": a line for each address of each device.             *)

FirstOr(names, none) == IF names = <<>> THEN none ELSE names[1]

FindDeviceResponsibleFor(addrs, ls) ==
    LET named == SelectSeq(ls, LAMBDA l : ToSet(addrs) \subseteq ToSet(l.addrs))
    IN  FirstOr([i \in 1..Len(named) |-> named[i].name], NoDevice)

Lines(ls) ==
    FlattenSeq([i \in 1..Len(ls) |->
        [j \in 1..Len(ls[i].addrs) |-> [name |-> ls[i].name, addr |-> ls[i].addrs[j]]]])

\* Mutant: want_addrs kept from line to line
LessReliable_Kept(addrs, ls) ==
    LET lines == Lines(ls)
        done  == SelectInSeq([i \in 1..Len(lines) |-> {lines[j].addr : j \in 1..i}],
                             LAMBDA seen : ToSet(addrs) \subseteq seen)
    IN  IF done = 0 THEN NoDevice ELSE lines[done].name

LessReliable(addrs, ls) ==
    LET named == SelectSeq(Lines(ls), LAMBDA l : ToSet(addrs) \subseteq {l.addr})
    IN  FirstOr([i \in 1..Len(named) |-> named[i].name], NoDevice)
-----------------------------------------------------------------------------
Pair == [src_dc : DCs, dst_dc : DCs, netem : {Unset, Set}, netem_lopri : {Unset, Set}]

\* Each host has one data center, and each address is on one device.
Init ==
    /\ \E dc \in [Hosts -> DCs] :
          entries = [i \in DOMAIN SetToSeq(Hosts) |->
                        <<SetToSeq(Hosts)[i], dc[SetToSeq(Hosts)[i]]>>]
    /\ pairs \in BoundedSeq(Pair, MaxPairs)
    /\ my_addrs \in {s \in BoundedSeq(Hosts \cup {"elsewhere"}, 2) : s # <<>>}
    /\ \E at \in [ToSet(my_addrs) \cup Hosts -> Devices] :
          links = [d \in 1..2 |->
                     [name |-> SetToSeq(Devices)[d],
                      addrs |-> SetToSeq({a \in DOMAIN at : at[a] = SetToSeq(Devices)[d]})]]
    /\ device = NoDevice /\ configs = <<>>

\* Run: the reliable method (json: ip knows it), else the other one; the agent
\* returns an error when neither finds a device.
Setup(json) ==
    LET found == IF json /\ FindDeviceResponsibleFor(my_addrs, links) # NoDevice
                 THEN FindDeviceResponsibleFor(my_addrs, links)
                 ELSE LessReliable(my_addrs, links)
    IN  /\ device = NoDevice
        /\ found # NoDevice
        /\ device' = found
        /\ configs' = AllNetemConfigs(entries, pairs, MyDC(entries, my_addrs))
        /\ UNCHANGED <<entries, pairs, my_addrs, links>>

Next == \E json \in BOOLEAN : Setup(json)

Spec == Init /\ [][Next]_vars
-----------------------------------------------------------------------------
IsSetUp == device # NoDevice

\* The device the enforcer takes over carries every address of this host,
\* whichever of the two methods found it.
DeviceServesHost ==
    IsSetUp => \E d \in DOMAIN links :
                  links[d].name = device /\ ToSet(my_addrs) \subseteq ToSet(links[d].addrs)

\* InitSimulatedWan is told that the configs contain all flows: if the mapper
\* knows this host, every host of another data center is in exactly one of
\* them, also where no pair of the two data centers is configured, and no host
\* of this one is in any.  A flow moved to LOPRI keeps an emulated link.
WanIsComplete ==
    LET mine == MyDC(entries, my_addrs) IN
    IsSetUp /\ mine # NoDC =>
        \A h \in Hosts :
            LET in == {i \in DOMAIN configs : Contains(configs[i].matched, h)} IN
            IF HostDC(entries, h) = mine THEN in = {}
            ELSE \E i \in in :
                    /\ in = {i} /\ configs[i].dst_dc = HostDC(entries, h)
                    /\ configs[i].netem.hipri # Unset => configs[i].netem.lopri # Unset

\* What the enforcer is given is this host's device and its whole WAN.
SetUpRight == DeviceServesHost /\ WanIsComplete
=============================================================================
