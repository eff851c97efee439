-------------------------- MODULE MCProviderConfigs --------------------------
(***************************************************************************)
(* Values for ProviderConfigs.                                             *)
(***************************************************************************)
EXTENDS ProviderConfigs, TLC

For(tenant, address, source) == [tenant |-> tenant, address |-> address, source |-> source]

Sound     == For("t1", "sound", "Secret")
Elsewhere == For("t2", "sound", "Secret")
Malformed == For("t1", "malformed", "Secret")

OnlySound == {Sound}
AnyTenant == {Sound, Elsewhere, Malformed}

\* Any other reference, and another address for the same tenant.
Others(specs) == {e \in specs \X specs : e[1] # e[2]}
Rereferred  == Others(Specs)
Readdressed == {e \in Others(AnyTenant) : e[1].tenant = e[2].tenant}
=============================================================================
