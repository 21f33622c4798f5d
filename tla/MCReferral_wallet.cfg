SPECIFICATION Spec
CONSTANTS
  w1 = w1
  w2 = w2
  k1 = k1
  k2 = k2
  k3 = k3
  q1 = q1
  q2 = q2
  Stewardship = Stewardship
  Nobody = Nobody
  Wallets <- MCWallets
  Codes <- MCCodes
  Requests <- MCRequests
  Addresses = {"ip"}
  Unused = {}
  MaxOutstanding = 1
  IpLimit = 2
  BatchLimit = 2
  MaxFailures = 0
SYMMETRY Symmetry
INVARIANT
  OneReferralPerWallet
