SPECIFICATION Spec
CONSTANTS
  Requests = {r1, r2, r3}
  Ips = {ip1, ip2}
  NoSecret = NoSecret
  MaxAttempts = 2
  MaxRequests = 6
  MaxSecrets = 2
  MaxRestarts = 1
SYMMETRY Symmetry
INVARIANTS LockoutHolds RevokedForGood SpentTokensAreDead FrozenForGood SecretProved
CHECK_DEADLOCK FALSE
