CONSTANTS
  Calls = {c1, c2}
  Nobody = Nobody
  Passwords = {"p", "q"}
  SdkServices <- Lenient
  Environment = "prod"
  MaxFaults = 2
SPECIFICATION StacksSpec
INVARIANTS CredentialsKept EndpointPublished UsedExists
PROPERTY CreationEnds
