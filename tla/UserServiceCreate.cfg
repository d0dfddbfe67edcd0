\* A user whose address is free.
SPECIFICATION Spec
CONSTANTS
    u1 = u1
    u2 = u2
    e1 = e1
    sales = sales
    Users = {u1, u2}
    Emails = {e1}
    EmailOf <- OneAddress
    h1 = h1
    h2 = h2
    Handlers = {h1}
    RoleSets <- OneRole
    Patches <- Deactivations
    MaxFaults = 0
    Nil = Nil
PROPERTY NewUserIsCreated
