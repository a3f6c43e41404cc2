---------------------------- MODULE MCProviders -----------------------------
(* Providers for TLC.  Two zones whose types differ by the order of their    *)
(* prefixes only, one that is excluded, and three devices of one domain.     *)
EXTENDS Providers

Entries == {"zone0", "zone1", "zone2", "device0", "device1", "device2"}
Sides == [e \in Entries |-> IF e \in {"zone0", "zone1", "zone2"} THEN "temp" ELSE "cool"]
Types == [e \in Entries |->
  CASE e = "zone0" -> [prefixes |-> {"sdram", "sdr"}, level |-> FALSE]
    [] e = "zone1" -> [prefixes |-> {"pm"}, level |-> TRUE]
    [] e = "zone2" -> [prefixes |-> {}, level |-> FALSE]
    [] OTHER -> [prefixes |-> {"cpu"}, level |-> FALSE]]
=============================================================================
