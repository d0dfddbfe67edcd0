\* Reads, logins, deactivations and deletions of two users with one fault.
SPECIFICATION Spec
CONSTANTS
    u1 = u1
    u2 = u2
    e1 = e1
    sales = sales
    Users = {u1, u2}
    Emails = {e1}
    EmailOf <- OneAddress
    h1 = h1
    h2 = h2
    Handlers = {h1, h2}
    RoleSets <- OneRole
    Patches <- Deactivations
    MaxFaults = 1
    Nil = Nil
INVARIANT TypeOK
PROPERTIES
    EntriesConverge
    LoginOfActiveUser
