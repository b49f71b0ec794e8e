-------------------------- MODULE MCArchiveLinking --------------------------
(***************************************************************************)
(* Two archives, the first of three members and the second of one.  Each   *)
(* member defines a name or two and says anything of at most two of three; *)
(* the program leaves one name undefined and says anything of another.     *)
(***************************************************************************)
EXTENDS ArchiveLinking

MCMembers == {<<1, 1>>, <<1, 2>>, <<1, 3>>, <<2, 1>>}

MCFiles == [Names -> {"absent", "undef", "def"}]
MCObjectFiles == {f \in MCFiles : f["a"] = "undef" /\ f["c"] = "absent"}
MCMemberFiles ==
    {f \in MCFiles :
        /\ \E n \in Names : f[n] = "def"
        /\ Cardinality({n \in Names : f[n] # "absent"}) <= 2}
=============================================================================
