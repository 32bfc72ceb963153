------------------------------- MODULE MCPcie -------------------------------
(* The enumeration of PCIe, and what is done with the functions it found. In *)
(* a behaviour one of the two happens.                                       *)
EXTENDS MCPcieEnum, MCDevices

NoBus    == [blocks |-> <<>>, fn |-> <<>>]
MCBuses  == MCPlatforms \cup {NoBus}
MCSystems == MCMachines \cup {NoUse}

MCInit == Init /\ CfgInit /\ ExInit /\ DaInit /\ (plat = NoBus \/ pcie = NoUse)
MCNext ==
  \/ pcie = NoUse /\ Next /\ UNCHANGED <<cfgVars, exVars, daVars>>
  \/ /\ plat = NoBus /\ pcie # NoUse
     /\ \/ CfgNext /\ UNCHANGED <<exVars, daVars>>
        \/ ExNext /\ UNCHANGED daVars
        \/ DaNext
     /\ UNCHANGED vars
MCSpec == MCInit /\ [][MCNext]_<<vars, cfgVars, exVars, daVars>>
=============================================================================
