------------------------------- MODULE MCReload -----------------------------
EXTENDS Reload

Entry(init, exec) == [init |-> init, exec |-> exec]

Lists == {<<"dhcp", "usteer">>, <<"network", "wireless">>, <<"dhcp", "lldpd", "usteer">>}
Rules == {"lldpd", "usteer"} \X {Script("dnsmasq"), Script("usteer")}
Triggers == SUBSET Rules
Tables ==
  UNION {[S -> {Entry("dnsmasq", None), Entry(None, "restart")}] :
           S \in SUBSET {"lldpd", "usteer"}}
Scripts == {{}, {"lldpd"}, {"lldpd", "usteer"}}
Enabled == {{}, {"dnsmasq"}, {"usteer", "network"}, {"dnsmasq", "usteer"}}
=============================================================================
