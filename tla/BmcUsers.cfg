\* The user table under Redfish and IPMI at once; IPMI only takes names off.
SPECIFICATION UsersSpec
CONSTANTS
    MaxUsers = 3
    Names = {admin, alice, bob}
    Passwords = {p1}
    Unset = Unset
    Keep = Keep
    Roles = {4}
    Limits = {2}
    RedfishClients = {r1, r2}
    IpmiClients = {c1}
    IpmiNames = {Unset}
    IpmiIDs = {0, 2}
    DefaultUser = admin
    DefaultPass = p1
INVARIANT NamesDistinct
PROPERTY ImplementsAccounts
