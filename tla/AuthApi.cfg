SPECIFICATION Spec
CONSTANTS
    Threads = {t1, t2}
    Keys = {k1, k2}
    admin = admin
    operator = operator
    Names <- MCNames
    AccountScopes <- MCAccountScopes
    Scopes = {"auth.admin", "server.services.write", "server.logs.read"}
    Methods = {"auth.whoami", "auth.token.create", "auth.token.revoke", "server.services.start", "server.logs.query"}
    Topics = {"server.logs", "vpn.peers"}
    Anonymous = Anonymous
    None = None
SYMMETRY Symmetry
INVARIANTS NoEscalation AttributedToCaller MutationsAudited
