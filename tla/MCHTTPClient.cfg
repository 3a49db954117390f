CONSTANTS
    Hosts = {h1, h2}
    AllowedHosts = {h1}
    RedirectLimit = 2
    MaximumBytes = 2
    ChunkSizes = {1, 2}
SPECIFICATION Spec
INVARIANTS CredentialsStayHome MutationSentOnce
